---- MODULE Spec2Model ----
(***************************************************************************)
(* Cilantro: the configuration store (config.ts), the backend registry     *)
(* (backends/index.ts), the Claude, Codex and Mock adapters and the        *)
(* prompt execution facade executePrompt (index.ts), as a state machine.   *)
(*                                                                         *)
(* One caller runs one operation at a time (JavaScript is single-threaded  *)
(* and every operation is awaited); at each await the event loop, the      *)
(* spawned process, the timeout timer and other processes that touch the   *)
(* configuration file may take steps.                                      *)
(***************************************************************************)
EXTENDS Integers, Sequences, FiniteSets, TLC

(***************************************************************************)
(* JavaScript values.  Every value is a record of one shape so that any    *)
(* two of them can be compared: t is the tag, s the text of a string,      *)
(* n the value of a number, m the entries of an object (used for the       *)
(* `backends' mapping: a set of launch specs).  NaN is a number.           *)
(***************************************************************************)
Undef == [t |-> "undefined", s |-> "", n |-> 0, m |-> {}]
JsNull == [t |-> "null", s |-> "", n |-> 0, m |-> {}]
JsStr(x) == [t |-> "string", s |-> x, n |-> 0, m |-> {}]
JsNum(k) == [t |-> "number", s |-> "", n |-> k, m |-> {}]
JsNaN == [t |-> "number", s |-> "NaN", n |-> 0, m |-> {}]
JsObj(entries) == [t |-> "object", s |-> "", n |-> 0, m |-> entries]
JsBool(b) == [t |-> "boolean", s |-> IF b THEN "true" ELSE "false", n |-> 0, m |-> {}]

\* ToBoolean: undefined, null, "", 0 and NaN are falsy, all else is truthy.
Truthy(v) ==
    CASE v.t = "undefined" -> FALSE
      [] v.t = "null" -> FALSE
      [] v.t = "string" -> v.s # ""
      [] v.t = "number" -> v.s # "NaN" /\ v.n # 0
      [] v.t = "boolean" -> v.s = "true"
      [] OTHER -> TRUE

\* a || b
JsOr(a, b) == IF Truthy(a) THEN a ELSE b

\* typeof v  (typeof null is "object")
TypeOf(v) == IF v.t = "null" THEN "object" ELSE v.t

\* String(v) / template interpolation of v, for the values the model uses
ToStr(v) ==
    CASE v.t = "string" -> v.s
      [] v.t = "undefined" -> "undefined"
      [] v.t = "null" -> "null"
      [] v.t = "number" -> IF v.s = "NaN" THEN "NaN" ELSE ToString(v.n)
      [] v.t = "boolean" -> v.s
      [] OTHER -> "[object Object]"

(***************************************************************************)
(* Launch specs of the `backends' mapping of a configuration.              *)
(***************************************************************************)
LaunchSpec(name, command) == [name |-> name, command |-> command]
MockSpecs == {LaunchSpec("mock", "mock")}
KnownSpecs == {LaunchSpec("claude", "claude"), LaunchSpec("codex", "codex"),
               LaunchSpec("cursor", "cursor-agent")}

(***************************************************************************)
(* The text of the configuration file, as its syntax tree: `json' says     *)
(* whether the text is well-formed JSON, `top' is the kind of the top      *)
(* level value, and for an object the three fields the program reads       *)
(* (Undef: the field is not in the text).                                  *)
(***************************************************************************)
NoFile == [exists |-> FALSE, json |-> FALSE, top |-> "", defaultBackend |-> Undef,
           backends |-> Undef, timeout |-> Undef]
MalformedText == [exists |-> TRUE, json |-> FALSE, top |-> "", defaultBackend |-> Undef,
                  backends |-> Undef, timeout |-> Undef]
NullText == [exists |-> TRUE, json |-> TRUE, top |-> "null", defaultBackend |-> Undef,
             backends |-> Undef, timeout |-> Undef]
ObjectText(d, b, t) == [exists |-> TRUE, json |-> TRUE, top |-> "object",
                        defaultBackend |-> d, backends |-> b, timeout |-> t]


\* The value of a configuration object: the three fields the program reads.
Config(d, b, t) == [top |-> "object", defaultBackend |-> d, backends |-> b, timeout |-> t]
NoConfig == [top |-> "", defaultBackend |-> Undef, backends |-> Undef, timeout |-> Undef]

\* JSON.parse(content) of well-formed text: the value the text denotes.
JSONParseConfig(text) ==
    [top |-> text.top, defaultBackend |-> text.defaultBackend,
     backends |-> text.backends, timeout |-> text.timeout]

\* JSON.stringify of one field value: an undefined field is left out of the
\* text, NaN is written as null, every other value is written as it is.
StringifyField(v) ==
    IF v.t = "undefined" THEN Undef
    ELSE IF v.t = "number" /\ v.s = "NaN" THEN JsNull
    ELSE v

\* JSON.stringify(config, null, 2)
JSONStringify(config) ==
    ObjectText(StringifyField(config.defaultBackend), StringifyField(config.backends),
               StringifyField(config.timeout))

(***************************************************************************)
(* What loadConfig gives: null, a configuration, or a raised Error.        *)
(***************************************************************************)
LoadPending == [kind |-> "pending", config |-> NoConfig, msg |-> ""]
LoadNull == [kind |-> "null", config |-> NoConfig, msg |-> ""]
LoadOk(c) == [kind |-> "config", config |-> c, msg |-> ""]
LoadErr(m) == [kind |-> "error", config |-> NoConfig, msg |-> m]

SyntaxErrorMessage == "JSON Parse error: Unexpected token"
TypeErrorMessage == "null is not an object (evaluating 'config.defaultBackend')"
ENOENTMessage == "ENOENT: no such file or directory"

\* loadConfig without the check of `timeout'
ParseAndValidateNoTimeoutCheck(text) ==
    IF ~text.json
    THEN LoadErr("Invalid JSON in config file: " \o SyntaxErrorMessage)
    ELSE LET config == JSONParseConfig(text) IN
         IF config.top = "null" THEN LoadErr(TypeErrorMessage)
         ELSE IF ~Truthy(config.defaultBackend)
         THEN LoadErr("Config missing 'defaultBackend' field")
         ELSE IF ~Truthy(config.backends) \/ TypeOf(config.backends) # "object"
         THEN LoadErr("Config missing or invalid 'backends' field")
         ELSE LoadOk(config)

\* loadConfig, lines 143-165: read, parse and validate the text of an existing file.
ParseAndValidate(text) ==
    IF ~text.json
    THEN LoadErr("Invalid JSON in config file: " \o SyntaxErrorMessage)
    ELSE LET config == JSONParseConfig(text) IN
         IF config.top = "null" THEN LoadErr(TypeErrorMessage)
         ELSE IF ~Truthy(config.defaultBackend)
         THEN LoadErr("Config missing 'defaultBackend' field")
         ELSE IF ~Truthy(config.backends) \/ TypeOf(config.backends) # "object"
         THEN LoadErr("Config missing or invalid 'backends' field")
         ELSE IF TypeOf(config.timeout) # "number"
         THEN LoadErr("Config missing or invalid 'timeout' field")
         ELSE LoadOk(config)

(***************************************************************************)
(* Inputs of the model.                                                    *)
(***************************************************************************)
DefaultTimeout == 120000
CustomTimeout == 60000

ValidTexts ==
    {ObjectText(JsStr(d), JsObj(KnownSpecs), JsNum(t)) :
        d \in {"claude", "mock"}, t \in {DefaultTimeout, CustomTimeout}}
    \cup {ObjectText(JsStr("mock"), JsObj(MockSpecs), JsNum(DefaultTimeout))}

InvalidTexts ==
    {MalformedText, NullText,
     ObjectText(Undef, JsObj(KnownSpecs), JsNum(DefaultTimeout)),
     ObjectText(JsStr(""), JsObj(KnownSpecs), JsNum(DefaultTimeout)),
     ObjectText(JsStr("claude"), Undef, JsNum(DefaultTimeout)),
     ObjectText(JsStr("claude"), JsStr("none"), JsNum(DefaultTimeout)),
     ObjectText(JsStr("claude"), JsObj(KnownSpecs), JsStr("120000"))}

\* What another process (an editor, the user) may leave at the fixed path.
FileTexts == ValidTexts \cup InvalidTexts

\* Arguments of saveConfig: values of the type CilantroConfig.
SaveInputs ==
    {Config(JsStr(d), JsObj(KnownSpecs), JsNum(t)) :
        d \in {"claude", "mock"}, t \in {DefaultTimeout, CustomTimeout}}
    \cup {Config(JsStr("mock"), JsObj(MockSpecs), JsNum(DefaultTimeout)),
          Config(JsStr("claude"), JsObj(KnownSpecs), JsNaN)}

Prompts == {"What is 2+2?", "bad prompt"}
Dirs == {"/tmp/test"}
\* options.backend: not given, empty, a registered name, a wrong-case name
BackendOptions == {Undef, JsStr(""), JsStr("claude"), JsStr("mock"), JsStr("Claude")}
\* options.timeout: not given, or a number
TimeoutOptions == {Undef, JsNum(0), JsNum(CustomTimeout)}
\* process.env.CILANTRO_BACKEND: unset, empty, a name
EnvValues == {Undef, JsStr(""), JsStr("codex")}

ExecutePromptOptions ==
    [prompt : Prompts, workingDirectory : Dirs, backend : BackendOptions,
     timeout : TimeoutOptions]
NoOptions == [prompt |-> "", workingDirectory |-> "", backend |-> Undef, timeout |-> Undef]

\* ExecuteOptions, the argument of an adapter's execute
ExecuteOptions(p, d, t) == [prompt |-> p, workingDirectory |-> d, timeout |-> t]
NoExecuteOptions == ExecuteOptions("", "", Undef)


(***************************************************************************)
(* ExecutionResult, and what a call gives: a returned value or a raised    *)
(* error.  `error' is Undef when the field holds undefined or is left out. *)
(***************************************************************************)
Result(succ, name, output, out, err, code, error) ==
    [success |-> succ, backend |-> name, output |-> output, stdout |-> out,
     stderr |-> err, exitCode |-> code, error |-> error]
NoResult == Result(FALSE, "", Undef, "", "", 0, Undef)

NoOutcome == [kind |-> "none", error |-> "", msg |-> "", result |-> NoResult]
Returned(r) == [kind |-> "returned", error |-> "", msg |-> "", result |-> r]
Raised(e, m) == [kind |-> "raised", error |-> e, msg |-> m, result |-> NoResult]

\* errors.ts
CilantroNotInitializedError ==
    Raised("CilantroNotInitializedError",
           "Cilantro not initialized. Run 'cilantro init' first.")
BackendNotFoundError(backendName) ==
    Raised("BackendNotFoundError",
           "Backend '" \o ToStr(backendName) \o "' not found. Run 'cilantro init' to reconfigure.")

(***************************************************************************)
(* The registry ALL_BACKENDS: the adapters' names, in insertion order.     *)
(* The test suite empties it and pushes a MockBackend.                     *)
(***************************************************************************)
ProductionRegistry == <<"claude", "codex", "cursor">>
TestRegistry == <<"mock">>
NoBackend == ""

\* toLowerCase() on the names the model uses
Lower(x) == IF x = "Claude" THEN "claude" ELSE x

\* getBackend comparing names without regard to case
GetBackendIgnoreCase(reg, name) ==
    LET hits == {i \in 1..Len(reg) : name.t = "string" /\ Lower(reg[i]) = Lower(name.s)} IN
    IF hits = {} THEN NoBackend
    ELSE reg[CHOOSE i \in hits : \A j \in hits : i <= j]

\* getBackend(name): the first adapter b with b.name === name, else null
GetBackend(reg, name) ==
    LET hits == {i \in 1..Len(reg) : JsStr(reg[i]) = name} IN
    IF hits = {} THEN NoBackend
    ELSE reg[CHOOSE i \in hits : \A j \in hits : i <= j]

\* the environment variable consulted before the per-call option
ResolveEnvFirst(options, environment, config) ==
    JsOr(JsOr(environment, options.backend), config.defaultBackend)

\* a default that counts only when the configuration lists it
ResolveListedOnly(options, environment, config) ==
    JsOr(JsOr(options.backend, environment),
         IF \E sp \in config.backends.m : JsStr(sp.name) = config.defaultBackend
         THEN config.defaultBackend ELSE JsStr("claude"))

\* options.backend || process.env.CILANTRO_BACKEND || config.defaultBackend
ResolveBackendName(options, environment, config) ==
    JsOr(JsOr(options.backend, environment), config.defaultBackend)

\* options.timeout || config.timeout
EffectiveTimeout(options, config) == JsOr(options.timeout, config.timeout)

(***************************************************************************)
(* MockBackend: the configured responses and the recorded calls.           *)
(***************************************************************************)
MaxCalls == 2

NoResponses == [p \in Prompts |-> NoOutcome]

\* mockResponse(prompt, result): the defaults overridden by the given fields
MockResponseResult(output) ==
    Result(TRUE, "mock", JsStr(output), "", "", 0, Undef)
\* mockError(prompt, error, exitCode)
MockErrorResult(error, code) ==
    Result(FALSE, "mock", JsStr(""), "", error, code, JsStr(error))
\* the default response of execute
MockDefaultResult(prompt) ==
    Result(TRUE, "mock", JsStr("Mock response for: " \o prompt),
           "Mock response for: " \o prompt, "", 0, Undef)

(***************************************************************************)
(* backends/claude.ts, backends/codex.ts: the pure parts of execute.       *)
(***************************************************************************)
\* The texts a process is taken to print on standard output.
StdoutPlain == "Hello"
StdoutAll == "{\"result\":\"R\",\"response\":\"P\",\"output\":\"O\"}"
StdoutResponse == "{\"response\":\"P\",\"output\":\"O\"}"
StdoutOutput == "{\"output\":\"O\"}"
StdoutOther == "{\"other\":1}"
StdoutEmptyResult == "{\"result\":\"\",\"response\":\"P\"}"
StdoutNumber == "{\"result\":42}"
StdoutNull == "null"
StdoutSamples ==
    {"", StdoutPlain, StdoutAll, StdoutResponse, StdoutOutput, StdoutOther,
     StdoutEmptyResult, StdoutNumber, StdoutNull}
StderrSamples == {"", "boom"}

\* JSON.parse(stdout) on those texts: a SyntaxError (ok = FALSE), null, or an
\* object with the fields the adapter reads (Undef: the field is not there).
Parsed(top, result, response, output) ==
    [ok |-> TRUE, top |-> top, result |-> result, response |-> response, output |-> output]
ParseFailed ==
    [ok |-> FALSE, top |-> "", result |-> Undef, response |-> Undef, output |-> Undef]
JSONParse(text) ==
    CASE text = StdoutAll -> Parsed("object", JsStr("R"), JsStr("P"), JsStr("O"))
      [] text = StdoutResponse -> Parsed("object", Undef, JsStr("P"), JsStr("O"))
      [] text = StdoutOutput -> Parsed("object", Undef, Undef, JsStr("O"))
      [] text = StdoutOther -> Parsed("object", Undef, Undef, Undef)
      [] text = StdoutEmptyResult -> Parsed("object", JsStr(""), JsStr("P"), Undef)
      [] text = StdoutNumber -> Parsed("object", JsNum(42), Undef, Undef)
      [] text = StdoutNull -> Parsed("null", Undef, Undef, Undef)
      [] OTHER -> ParseFailed

\* claude.ts lines 60-70: the normalized output.  JSON.parse throwing, and
\* the property access on null throwing, both land in the catch clause.
ClaudeOutput(exitCode, stdout) ==
    IF exitCode = 0
    THEN LET parsed == JSONParse(stdout) IN
         IF parsed.ok /\ parsed.top # "null"
         THEN JsOr(JsOr(JsOr(parsed.result, parsed.response), parsed.output), JsStr(stdout))
         ELSE JsStr(stdout)
    ELSE JsStr("")

\* codex.ts line 60: output: stdout
CodexOutput(exitCode, stdout) == JsStr(stdout)

\* error: stderr || undefined
ErrorFieldFromStderr(exitCode, stderr) ==
    IF stderr # "" THEN JsStr(stderr) ELSE Undef

\* error: exitCode !== 0 ? stderr || "Execution failed" : undefined
ErrorField(exitCode, stderr) ==
    IF exitCode # 0 THEN JsOr(JsStr(stderr), JsStr("Execution failed")) ELSE Undef

\* claude.ts lines 72-80
ClaudeResult(exitCode, stdout, stderr) ==
    Result(exitCode = 0, "claude", ClaudeOutput(exitCode, stdout), stdout, stderr,
           exitCode, ErrorField(exitCode, stderr))

\* codex.ts lines 57-65
CodexResult(exitCode, stdout, stderr) ==
    Result(exitCode = 0, "codex", CodexOutput(exitCode, stdout), stdout, stderr,
           exitCode, ErrorField(exitCode, stderr))

\* The Cursor adapter (backends/cursor.ts): the Claude adapter's shape with
\* its own command; it reads structured output.
CursorResult(exitCode, stdout, stderr) ==
    Result(exitCode = 0, "cursor", ClaudeOutput(exitCode, stdout), stdout, stderr,
           exitCode, ErrorField(exitCode, stderr))

\* the catch clause of execute: the thrown error as a result
CatchResult(name, message) ==
    Result(FALSE, name, JsStr(""), "", message, -1, JsStr(message))

AdapterResult(name, exitCode, stdout, stderr) ==
    CASE name = "claude" -> ClaudeResult(exitCode, stdout, stderr)
      [] name = "codex" -> CodexResult(exitCode, stdout, stderr)
      [] OTHER -> CursorResult(exitCode, stdout, stderr)

\* The command line each adapter spawns.
ClaudeArgv(prompt) == <<"claude", "-p", "--output-format", "json", prompt>>
CodexArgv(prompt) == <<"codex", "exec", prompt>>
CursorArgv(prompt) == <<"cursor-agent", "-p", "--output-format", "json", prompt>>
AdapterArgv(name, prompt) ==
    CASE name = "claude" -> ClaudeArgv(prompt)
      [] name = "codex" -> CodexArgv(prompt)
      [] OTHER -> CursorArgv(prompt)

\* const { timeout = 120000 } = options
TimerDelay(options) ==
    IF options.timeout.t = "undefined" THEN JsNum(DefaultTimeout) ELSE options.timeout

ProcessAdapters == {"claude", "codex", "cursor"}
SpawnErrorMessage == "Executable not found in $PATH"
ReadErrorMessage == "stream read failed"
\* What `await proc.exited' gives for a process ended by SIGTERM: 128 + 15.
SigtermExitCode == 143
ExitCodes == {0, 1}

NoProc == [state |-> "none", code |-> 0, out |-> "", err |-> "", sigterm |-> FALSE,
           argv |-> <<>>, cwd |-> ""]
NoTimer == [state |-> "none", delay |-> Undef]

VARIABLES
    file,       \* the text at the configuration path, or NoFile
    env,        \* process.env.CILANTRO_BACKEND
    registry,   \* ALL_BACKENDS
    op,         \* the operation the caller is in, "none" between operations
    pc,         \* where that operation is
    opts,       \* executePrompt's options
    loaded,     \* what loadConfig gave
    adapter,    \* the name of the adapter whose execute runs
    execOpts,   \* the ExecuteOptions passed to it
    execOut,    \* what that execute gave
    outcome,    \* what the operation gave to its caller
    invoked,    \* adapter execute invocations made by the operation
    responses,  \* MockBackend.responses
    calls,      \* MockBackend.calls
    proc,       \* the spawned process: its state in the operating system
    timer,      \* the timeout timer of execute
    exitCode,   \* const exitCode = await proc.exited
    spawned,    \* Bun.spawn calls made by the operation
    kills,      \* proc.kill() calls: the state the process was in at each
    caught,     \* the message of the error execute's catch clause caught
    initialized,\* what isInitialized() gave, Undef before it has
    args,       \* process.argv.slice(2) of the command line program
    stdoutLog,  \* the lines console.log wrote
    stderrLog,  \* the lines console.error wrote
    exitStatus, \* the exit status of the command line program
    probes,     \* detectBackends: the detect() of each adapter, by registry index
    detected    \* detectBackends: the report

vars == <<file, env, registry, op, pc, opts, loaded, adapter, execOpts, execOut,
          outcome, invoked, responses, calls, proc, timer, exitCode, spawned, kills,
          caught, initialized, args, stdoutLog, stderrLog, exitStatus,
          probes, detected>>

callVars == <<opts, loaded, adapter, execOpts, execOut, outcome, invoked>>
mockVars == <<responses, calls>>
procVars == <<proc, timer, exitCode, spawned, kills, caught>>
worldVars == <<file, env, registry>>
confVars == <<initialized>>
cliVars == <<args, stdoutLog, stderrLog, exitStatus>>
detectVars == <<probes, detected>>
moreVars == <<confVars, cliVars, detectVars>>

\* The command line program has not called process.exit.
NotExited == -1

Init ==
    /\ file \in {NoFile} \cup FileTexts
    /\ env \in EnvValues
    /\ registry \in {ProductionRegistry, TestRegistry}
    /\ op = "none"
    /\ pc = "idle"
    /\ opts = NoOptions
    /\ loaded = LoadPending
    /\ adapter = NoBackend
    /\ execOpts = NoExecuteOptions
    /\ execOut = NoOutcome
    /\ outcome = NoOutcome
    /\ invoked = 0
    /\ responses = NoResponses
    /\ calls = <<>>
    /\ proc = NoProc
    /\ timer = NoTimer
    /\ exitCode = 0
    /\ spawned = 0
    /\ kills = <<>>
    /\ caught = ""
    /\ initialized = Undef
    /\ args = <<>>
    /\ stdoutLog = <<>>
    /\ stderrLog = <<>>
    /\ exitStatus = NotExited
    /\ probes = <<>>
    /\ detected = <<>>

(***************************************************************************)
(* The world outside the caller.                                           *)
(***************************************************************************)
\* Another process replaces the configuration file.
ExternalWrite(text) ==
    /\ file # text
    /\ file' = text
    /\ UNCHANGED <<env, registry, op, pc, callVars, mockVars, procVars, moreVars>>

\* Another process (or a test's unlinkSync) deletes it.
ExternalDelete ==
    /\ file # NoFile
    /\ file' = NoFile
    /\ UNCHANGED <<env, registry, op, pc, callVars, mockVars, procVars, moreVars>>

\* The caller sets or unsets CILANTRO_BACKEND between operations.
SetEnv(v) ==
    /\ op = "none"
    /\ env # v
    /\ env' = v
    /\ UNCHANGED <<file, registry, op, pc, callVars, mockVars, procVars, moreVars>>

(***************************************************************************)
(* config.ts                                                               *)
(***************************************************************************)
\* saveConfig(config): stringify and write, replacing the file
SaveConfig(config) ==
    /\ op = "none"
    /\ file' = JSONStringify(config)
    /\ UNCHANGED <<env, registry, op, pc, callVars, mockVars, procVars, moreVars>>

\* A direct call of loadConfig().
LoadConfigStart ==
    /\ op = "none"
    /\ op' = "loadConfig"
    /\ pc' = "load_exists"
    /\ loaded' = LoadPending
    /\ UNCHANGED <<worldVars, opts, adapter, execOpts, execOut, outcome, invoked, mockVars, procVars, moreVars>>

\* loadConfig, lines 137-141: if (!existsSync(configPath)) return null
LoadExists ==
    /\ pc = "load_exists"
    /\ IF ~file.exists
       THEN loaded' = LoadNull /\ pc' = "loaded"
       ELSE loaded' = loaded /\ pc' = "load_read"
    /\ UNCHANGED <<worldVars, op, opts, adapter, execOpts, execOut, outcome, invoked, mockVars, procVars, moreVars>>

\* a loadConfig that takes a file it cannot read, parse or validate as no file
LoadReadSwallow ==
    /\ pc = "load_read"
    /\ loaded' = IF ~file.exists \/ ParseAndValidate(file).kind = "error"
                 THEN LoadNull ELSE ParseAndValidate(file)
    /\ pc' = "loaded"
    /\ UNCHANGED <<worldVars, op, opts, adapter, execOpts, execOut, outcome, invoked,
                   mockVars, procVars, moreVars>>

\* a loadConfig that gives a configuration it holds, whatever the file holds
LoadReadStale ==
    /\ pc = "load_read"
    /\ loaded' = LoadOk(Config(JsStr("mock"), JsObj(MockSpecs), JsNum(DefaultTimeout)))
    /\ pc' = "loaded"
    /\ UNCHANGED <<worldVars, op, opts, adapter, execOpts, execOut, outcome, invoked,
                   mockVars, procVars, moreVars>>

\* a loadConfig that removes a file it cannot parse or validate
LoadReadRepairs ==
    /\ pc = "load_read"
    /\ loaded' = IF ~file.exists THEN LoadErr(ENOENTMessage) ELSE ParseAndValidate(file)
    /\ file' = IF file.exists /\ ParseAndValidate(file).kind = "error" THEN NoFile ELSE file
    /\ pc' = "loaded"
    /\ UNCHANGED <<env, registry, op, opts, adapter, execOpts, execOut, outcome, invoked,
                   mockVars, procVars, moreVars>>

\* loadConfig, lines 143-165: await file.text(), parse, validate.  Reading a
\* file that was deleted since the existence check raises ENOENT, which the
\* catch clause throws on.
LoadRead ==
    /\ pc = "load_read"
    /\ loaded' = IF ~file.exists THEN LoadErr(ENOENTMessage) ELSE ParseAndValidate(file)
    /\ pc' = "loaded"
    /\ UNCHANGED <<worldVars, op, opts, adapter, execOpts, execOut, outcome, invoked, mockVars, procVars, moreVars>>

\* The direct call of loadConfig() gives its value or its error to the caller.
LoadConfigReturn ==
    /\ op = "loadConfig"
    /\ pc = "loaded"
    /\ pc' = "done"
    /\ outcome' = IF loaded.kind = "error" THEN Raised("Error", loaded.msg)
                  ELSE Returned(NoResult)
    /\ UNCHANGED <<worldVars, op, opts, loaded, adapter, execOpts, execOut, invoked, mockVars, procVars, moreVars>>

\* A direct call of isInitialized().
IsInitializedStart ==
    /\ op = "none"
    /\ op' = "isInitialized"
    /\ pc' = "init_exists"
    /\ UNCHANGED <<worldVars, callVars, mockVars, procVars, moreVars>>

\* isInitialized, lines 118-121: if (!existsSync(configPath)) return false;
\* otherwise loadConfig() is called.
IsInitializedExists ==
    /\ pc = "init_exists"
    /\ IF ~file.exists
       THEN initialized' = JsBool(FALSE) /\ pc' = "init_ret"
       ELSE initialized' = initialized /\ pc' = "load_exists"
    /\ UNCHANGED <<worldVars, op, callVars, mockVars, procVars, cliVars, detectVars>>

\* try { await loadConfig(); return true } catch { return false }
IsInitializedResult(ld) == JsBool(ld.kind # "error")

\* isInitialized, lines 123-128, once its loadConfig has settled
IsInitializedSettle ==
    /\ op \in {"isInitialized", "cli"}
    /\ pc = "loaded"
    /\ initialized = Undef
    /\ initialized' = IsInitializedResult(loaded)
    /\ pc' = "init_ret"
    /\ UNCHANGED <<worldVars, op, callVars, mockVars, procVars, cliVars, detectVars>>

\* The direct call of isInitialized() gives its value to the caller.
IsInitializedReturn ==
    /\ op = "isInitialized"
    /\ pc = "init_ret"
    /\ pc' = "done"
    /\ outcome' = Returned(NoResult)
    /\ UNCHANGED <<worldVars, op, opts, loaded, adapter, execOpts, execOut, invoked,
                   mockVars, procVars, moreVars>>

(***************************************************************************)
(* index.ts: executePrompt                                                 *)
(***************************************************************************)
\* line 61: const config = await loadConfig()
ExecutePromptStart(options) ==
    /\ op = "none"
    /\ Len(calls) < MaxCalls
    /\ op' = "executePrompt"
    /\ pc' = "load_exists"
    /\ opts' = options
    /\ loaded' = LoadPending
    /\ UNCHANGED <<worldVars, adapter, execOpts, execOut, outcome, invoked, mockVars, procVars, moreVars>>

\* the pre-flight checks without `if (!config)': reading config.defaultBackend
\* of null throws a TypeError
PreflightNoInitCheck(ld, options, environment, reg) ==
    IF ld.kind = "null" THEN Raised("TypeError", TypeErrorMessage)
    ELSE LET backendName == ResolveBackendName(options, environment, ld.config) IN
         IF GetBackend(reg, backendName) = NoBackend
         THEN BackendNotFoundError(backendName)
         ELSE NoOutcome

\* lines 63-74: the error the two pre-flight checks raise, NoOutcome when
\* both pass
Preflight(ld, options, environment, reg) ==
    IF ld.kind = "null" THEN CilantroNotInitializedError
    ELSE LET backendName == ResolveBackendName(options, environment, ld.config) IN
         IF GetBackend(reg, backendName) = NoBackend
         THEN BackendNotFoundError(backendName)
         ELSE NoOutcome

\* lines 61-82, once loadConfig has settled: an error of loadConfig is thrown
\* on, a pre-flight error is raised, or the adapter's execute is called
ExecutePromptResolve ==
    /\ op = "executePrompt"
    /\ pc = "loaded"
    /\ IF loaded.kind = "error"
       THEN /\ outcome' = Raised("Error", loaded.msg)
            /\ pc' = "done"
            /\ UNCHANGED <<adapter, execOpts, invoked, moreVars>>
       ELSE IF Preflight(loaded, opts, env, registry) # NoOutcome
       THEN /\ outcome' = Preflight(loaded, opts, env, registry)
            /\ pc' = "done"
            /\ UNCHANGED <<adapter, execOpts, invoked, moreVars>>
       ELSE /\ adapter' = GetBackend(registry,
                                     ResolveBackendName(opts, env, loaded.config))
            /\ execOpts' = ExecuteOptions(opts.prompt, opts.workingDirectory,
                                          EffectiveTimeout(opts, loaded.config))
            /\ invoked' = invoked + 1
            /\ pc' = "exec_start"
            /\ UNCHANGED outcome
    /\ UNCHANGED <<worldVars, op, opts, loaded, execOut, mockVars, procVars, moreVars>>

\* a facade that turns an adapter's failure into a raised error
ExecutePromptReturnThrows ==
    /\ op = "executePrompt"
    /\ pc = "exec_ret"
    /\ outcome' = IF execOut.kind = "returned" /\ ~execOut.result.success
                  THEN Raised("BackendExecutionError", execOut.result.stderr)
                  ELSE execOut
    /\ pc' = "done"
    /\ UNCHANGED <<worldVars, op, opts, loaded, adapter, execOpts, execOut, invoked,
                   mockVars, procVars, moreVars>>

\* line 82: return backend.execute(executeOptions)
ExecutePromptReturn ==
    /\ op = "executePrompt"
    /\ pc = "exec_ret"
    /\ outcome' = execOut
    /\ pc' = "done"
    /\ UNCHANGED <<worldVars, op, opts, loaded, adapter, execOpts, execOut, invoked, mockVars, procVars, moreVars>>

\* The caller has the outcome; the next operation may begin.
Finish ==
    /\ pc = "done"
    /\ op' = "none"
    /\ pc' = "idle"
    /\ opts' = NoOptions
    /\ loaded' = LoadPending
    /\ adapter' = NoBackend
    /\ execOpts' = NoExecuteOptions
    /\ execOut' = NoOutcome
    /\ outcome' = NoOutcome
    /\ invoked' = 0
    /\ proc' = NoProc
    /\ timer' = NoTimer
    /\ exitCode' = 0
    /\ spawned' = 0
    /\ kills' = <<>>
    /\ caught' = ""
    /\ initialized' = Undef
    /\ args' = <<>>
    /\ stdoutLog' = <<>>
    /\ stderrLog' = <<>>
    /\ exitStatus' = NotExited
    /\ probes' = <<>>
    /\ detected' = <<>>
    /\ UNCHANGED <<worldVars, mockVars>>

(***************************************************************************)
(* testing/index.ts: MockBackend                                           *)
(***************************************************************************)
MockResponse(prompt, output) ==
    /\ op = "none"
    /\ "mock" \in {registry[i] : i \in 1..Len(registry)}
    /\ responses' = [responses EXCEPT ![prompt] = Returned(MockResponseResult(output))]
    /\ UNCHANGED <<worldVars, op, pc, callVars, calls, procVars, moreVars>>

MockError(prompt, error, code) ==
    /\ op = "none"
    /\ "mock" \in {registry[i] : i \in 1..Len(registry)}
    /\ responses' = [responses EXCEPT ![prompt] = Returned(MockErrorResult(error, code))]
    /\ UNCHANGED <<worldVars, op, pc, callVars, calls, procVars, moreVars>>

ClearCalls ==
    /\ op = "none"
    /\ calls # <<>>
    /\ calls' = <<>>
    /\ UNCHANGED <<worldVars, op, pc, callVars, responses, procVars, moreVars>>

\* an execute that is tried a second time
MockExecuteRetry ==
    /\ pc = "exec_start"
    /\ adapter = "mock"
    /\ calls' = Append(Append(calls, execOpts), execOpts)
    /\ execOut' = IF responses[execOpts.prompt].kind = "returned"
                  THEN responses[execOpts.prompt]
                  ELSE Returned(MockDefaultResult(execOpts.prompt))
    /\ pc' = "exec_ret"
    /\ UNCHANGED <<worldVars, op, opts, loaded, adapter, execOpts, outcome, invoked,
                   responses, procVars, moreVars>>

\* MockBackend.execute
MockExecute ==
    /\ pc = "exec_start"
    /\ adapter = "mock"
    /\ calls' = Append(calls, execOpts)
    /\ execOut' = IF responses[execOpts.prompt].kind = "returned"
                  THEN responses[execOpts.prompt]
                  ELSE Returned(MockDefaultResult(execOpts.prompt))
    /\ pc' = "exec_ret"
    /\ UNCHANGED <<worldVars, op, opts, loaded, adapter, execOpts, outcome, invoked, responses, procVars, moreVars>>

(***************************************************************************)
(* backends/claude.ts, backends/codex.ts: execute, step by step.  Between  *)
(* the awaits the spawned process and the timer run on their own.          *)
(***************************************************************************)
Names(reg) == {reg[i] : i \in 1..Len(reg)}

\* A direct call of an adapter's execute(options), as the CLI makes it.
AdapterExecuteStart(name, options) ==
    /\ op = "none"
    /\ Len(calls) < MaxCalls
    /\ name \in Names(registry)
    /\ op' = "execute"
    /\ pc' = "exec_start"
    /\ adapter' = name
    /\ execOpts' = options
    /\ invoked' = invoked + 1
    /\ UNCHANGED <<worldVars, opts, loaded, execOut, outcome, mockVars, procVars, moreVars>>

\* a catch clause that throws the error on
CaughtRethrown(name, message) == Raised("Error", message)

\* The catch clause of execute (claude.ts 81-91, codex.ts 66-76): the error
\* becomes a returned result.
Caught(name, message) == Returned(CatchResult(name, message))

\* Bun.spawn(...) succeeds; setTimeout(() => proc.kill(), timeout)
AdapterSpawn ==
    /\ pc = "exec_start"
    /\ adapter \in ProcessAdapters
    /\ spawned' = spawned + 1
    /\ proc' = [NoProc EXCEPT !.state = "running",
                              !.argv = AdapterArgv(adapter, execOpts.prompt),
                              !.cwd = execOpts.workingDirectory]
    /\ timer' = [state |-> "armed", delay |-> TimerDelay(execOpts)]
    /\ pc' = "await_exited"
    /\ UNCHANGED <<worldVars, op, callVars, mockVars, exitCode, kills, caught, moreVars>>

\* Bun.spawn(...) throws: the command is not found, the directory is missing
AdapterSpawnFails ==
    /\ pc = "exec_start"
    /\ adapter \in ProcessAdapters
    /\ spawned' = spawned + 1
    /\ caught' = SpawnErrorMessage
    /\ execOut' = Caught(adapter, SpawnErrorMessage)
    /\ pc' = "exec_ret"
    /\ UNCHANGED <<worldVars, op, opts, loaded, adapter, execOpts, outcome, invoked,
                   mockVars, proc, timer, exitCode, kills, moreVars>>

\* The process ends of its own accord (also from a SIGTERM handler), having
\* printed `out' and `err'.
ProcExit(code, out, err) ==
    /\ proc.state = "running"
    /\ proc' = [proc EXCEPT !.state = "exited", !.code = code, !.out = out, !.err = err]
    /\ UNCHANGED <<worldVars, op, pc, callVars, mockVars, timer, exitCode, spawned, kills,
                   caught, moreVars>>

\* The process does not handle the SIGTERM it was sent: the signal ends it.
ProcTerminated(out, err) ==
    /\ proc.state = "running"
    /\ proc.sigterm
    /\ proc' = [proc EXCEPT !.state = "exited", !.code = SigtermExitCode,
                            !.out = out, !.err = err]
    /\ UNCHANGED <<worldVars, op, pc, callVars, mockVars, timer, exitCode, spawned, kills,
                   caught, moreVars>>

\* The timer's callback runs: proc.kill() sends SIGTERM to a running process
\* and does nothing to one that has ended.
TimerFire ==
    /\ timer.state = "armed"
    /\ timer' = [timer EXCEPT !.state = "fired"]
    /\ kills' = Append(kills, proc.state)
    /\ proc' = IF proc.state = "running" THEN [proc EXCEPT !.sigterm = TRUE] ELSE proc
    /\ UNCHANGED <<worldVars, op, pc, callVars, mockVars, exitCode, spawned, caught, moreVars>>

\* const exitCode = await proc.exited; clearTimeout(timeoutId)
AwaitExited ==
    /\ pc = "await_exited"
    /\ proc.state = "exited"
    /\ exitCode' = proc.code
    /\ timer' = IF timer.state = "armed" THEN [timer EXCEPT !.state = "cleared"] ELSE timer
    /\ pc' = "read_streams"
    /\ UNCHANGED <<worldVars, op, callVars, mockVars, proc, spawned, kills, caught, moreVars>>

\* the two stream reads succeed; the result is built and returned
ReadStreams ==
    /\ pc = "read_streams"
    /\ execOut' = Returned(AdapterResult(adapter, exitCode, proc.out, proc.err))
    /\ pc' = "exec_ret"
    /\ UNCHANGED <<worldVars, op, opts, loaded, adapter, execOpts, outcome, invoked,
                   mockVars, procVars, moreVars>>

\* a stream read throws
ReadStreamsFails ==
    /\ pc = "read_streams"
    /\ caught' = ReadErrorMessage
    /\ execOut' = Caught(adapter, ReadErrorMessage)
    /\ pc' = "exec_ret"
    /\ UNCHANGED <<worldVars, op, opts, loaded, adapter, execOpts, outcome, invoked,
                   mockVars, proc, timer, exitCode, spawned, kills, moreVars>>

\* The direct call gives the adapter's outcome to its caller.
AdapterExecuteReturn ==
    /\ op = "execute"
    /\ pc = "exec_ret"
    /\ outcome' = execOut
    /\ pc' = "done"
    /\ UNCHANGED <<worldVars, op, opts, loaded, adapter, execOpts, execOut, invoked,
                   mockVars, procVars, moreVars>>

(***************************************************************************)
(* backends/index.ts: detectBackends.  The map over ALL_BACKENDS calls     *)
(* every adapter's detect() in one synchronous run; each detect() spawns   *)
(* `which <command>' and awaits its exit; the probes end in any order.     *)
(***************************************************************************)
BackendCapabilities(r, h, j) ==
    [canReadCodebase |-> r, supportsHeadless |-> h, supportsJsonOutput |-> j]
ClaudeCapabilities == BackendCapabilities(TRUE, TRUE, TRUE)
CodexCapabilities == BackendCapabilities(TRUE, TRUE, FALSE)
\* The Cursor adapter (backends/cursor.ts): headless, structured output.
CursorCapabilities == BackendCapabilities(TRUE, TRUE, TRUE)
MockCapabilities == BackendCapabilities(TRUE, TRUE, TRUE)
Capabilities(name) ==
    CASE name = "claude" -> ClaudeCapabilities
      [] name = "codex" -> CodexCapabilities
      [] name = "cursor" -> CursorCapabilities
      [] OTHER -> MockCapabilities

\* One element of the report.
DetectedBackend(name, installed, capabilities) ==
    [name |-> name, installed |-> installed, capabilities |-> capabilities]
NoDetectedBackend == DetectedBackend("", Undef, BackendCapabilities(FALSE, FALSE, FALSE))

\* The detect() of one adapter: `threw' when Bun.spawn threw, `code' the
\* exit code of `which', `seq' the position in the order of completion.
Probe(state, threw) ==
    [state |-> state, threw |-> threw, code |-> 0, seq |-> 0, entry |-> NoDetectedBackend]

\* What a detect() promise settles to.
Resolved(v) == [kind |-> "resolved", value |-> v]
Rejected == [kind |-> "rejected", value |-> Undef]

\* a detect() without its catch clause
ClaudeDetectRethrows(probe) ==
    IF probe.threw THEN Rejected ELSE Resolved(JsBool(probe.code = 0))

\* ClaudeBackend.detect, claude.ts 15-26: exitCode === 0, and false from the
\* catch clause
ClaudeDetect(probe) ==
    IF probe.threw THEN Resolved(JsBool(FALSE)) ELSE Resolved(JsBool(probe.code = 0))

\* CodexBackend.detect, codex.ts 15-26
CodexDetect(probe) ==
    IF probe.threw THEN Resolved(JsBool(FALSE)) ELSE Resolved(JsBool(probe.code = 0))

\* The Cursor adapter (backends/cursor.ts): never raises, false on any failure.
CursorDetect(probe) ==
    IF probe.threw THEN Resolved(JsBool(FALSE)) ELSE Resolved(JsBool(probe.code = 0))

\* MockBackend.detect: Promise.resolve(true)
MockDetect(probe) == Resolved(JsBool(TRUE))

DetectResult(name, probe) ==
    CASE name = "claude" -> ClaudeDetect(probe)
      [] name = "codex" -> CodexDetect(probe)
      [] name = "cursor" -> CursorDetect(probe)
      [] OTHER -> MockDetect(probe)

\* The synchronous part of the map: each detect() runs up to its first await.
SpawnProbes(reg, fails) ==
    [i \in 1..Len(reg) |->
        IF reg[i] = "mock" THEN Probe("resolved", FALSE)
        ELSE IF i \in fails THEN Probe("threw", TRUE)
        ELSE Probe("running", FALSE)]

Settled(ps) == {i \in 1..Len(ps) : ps[i].state \in {"settled", "rejected"}}

\* an array of the results in the order in which the probes completed
PromiseAllCompletionOrder(ps) ==
    [k \in 1..Len(ps) |-> ps[CHOOSE i \in 1..Len(ps) : ps[i].seq = k].entry]

\* Promise.all: the array of the results, by index
PromiseAll(ps) == [i \in 1..Len(ps) |-> ps[i].entry]

\* A direct call of detectBackends().
DetectBackendsStart(fails) ==
    /\ op = "none"
    /\ op' = "detectBackends"
    /\ pc' = "detect_wait"
    /\ probes' = SpawnProbes(registry, fails)
    /\ UNCHANGED <<worldVars, callVars, mockVars, procVars, confVars, cliVars, detected>>

\* `which' ends.
ProbeExit(i, code) ==
    /\ i \in 1..Len(probes)
    /\ probes[i].state = "running"
    /\ probes' = [probes EXCEPT ![i].state = "exited", ![i].code = code]
    /\ UNCHANGED <<worldVars, op, pc, callVars, mockVars, procVars, confVars, cliVars,
                   detected>>

\* The mapper of adapter i resumes after `await backend.detect()'.
ProbeSettle(i) ==
    /\ pc = "detect_wait"
    /\ i \in 1..Len(probes)
    /\ probes[i].state \in {"exited", "threw", "resolved"}
    /\ LET r == DetectResult(registry[i], probes[i])
           k == Cardinality(Settled(probes)) + 1 IN
       probes' = IF r.kind = "rejected"
                 THEN [probes EXCEPT ![i].state = "rejected", ![i].seq = k]
                 ELSE [probes EXCEPT ![i].state = "settled", ![i].seq = k,
                                     ![i].entry = DetectedBackend(registry[i], r.value,
                                                                  Capabilities(registry[i]))]
    /\ UNCHANGED <<worldVars, op, pc, callVars, mockVars, procVars, confVars, cliVars,
                   detected>>

\* await Promise.all(...): rejects with the first rejection, otherwise
\* resolves once every mapper has.
DetectBackendsSettle ==
    /\ pc = "detect_wait"
    /\ IF \E i \in 1..Len(probes) : probes[i].state = "rejected"
       THEN /\ outcome' = Raised("Error", SpawnErrorMessage)
            /\ UNCHANGED detected
       ELSE /\ \A i \in 1..Len(probes) : probes[i].state = "settled"
            /\ detected' = PromiseAll(probes)
            /\ UNCHANGED outcome
    /\ pc' = "detect_ret"
    /\ UNCHANGED <<worldVars, op, opts, loaded, adapter, execOpts, execOut, invoked,
                   mockVars, procVars, confVars, cliVars, probes>>

\* The direct call gives the report to its caller.
DetectBackendsReturn ==
    /\ op = "detectBackends"
    /\ pc = "detect_ret"
    /\ pc' = "done"
    /\ outcome' = IF outcome.kind = "raised" THEN outcome ELSE Returned(NoResult)
    /\ UNCHANGED <<worldVars, op, opts, loaded, adapter, execOpts, execOut, invoked,
                   mockVars, procVars, moreVars>>

(***************************************************************************)
(* cli/index.ts: the command line program.                                 *)
(***************************************************************************)
\* arg.startsWith("--backend=") and arg.slice(10), on the arguments the
\* model uses
BackendEqArgs == {"--backend=codex", "--backend=claude", "--backend="}
StartsWithBackendEq(arg) == arg \in BackendEqArgs
SliceBackendEq(arg) ==
    CASE arg = "--backend=codex" -> "codex"
      [] arg = "--backend=claude" -> "claude"
      [] OTHER -> ""

\* parseArgs, lines 17-44: the loop from index i on
RECURSIVE ParseArgsFrom(_, _, _, _)
ParseArgsFrom(a, i, backendOverride, nonFlagArgs) ==
    IF i > Len(a)
    THEN [backendOverride |-> backendOverride, nonFlagArgs |-> nonFlagArgs]
    ELSE LET arg == a[i] IN
         IF arg = "" THEN ParseArgsFrom(a, i + 1, backendOverride, nonFlagArgs)
         ELSE IF StartsWithBackendEq(arg)
         THEN ParseArgsFrom(a, i + 1, JsStr(SliceBackendEq(arg)), nonFlagArgs)
         ELSE IF arg = "--backend" /\ i + 1 <= Len(a)
         THEN ParseArgsFrom(a, i + 2,
                            IF a[i + 1] # "" THEN JsStr(a[i + 1]) ELSE backendOverride,
                            nonFlagArgs)
         ELSE ParseArgsFrom(a, i + 1, backendOverride, Append(nonFlagArgs, arg))

ParseArgs(a) == ParseArgsFrom(a, 1, Undef, <<>>)

\* main, line 48: const command = nonFlagArgs[0]
Command(a) ==
    LET nonFlagArgs == ParseArgs(a).nonFlagArgs IN
    IF nonFlagArgs = <<>> THEN Undef ELSE JsStr(nonFlagArgs[1])

\* main, lines 50-62: the branch taken
CommandKind(a) ==
    LET command == Command(a) IN
    IF ~Truthy(command) \/ command.s \in {"help", "--help", "-h"} THEN "help"
    ELSE IF command.s = "init" THEN "init"
    ELSE IF command.s = "backends" THEN "backends"
    ELSE "prompt"

HelpText ==
    "\nCilantro - AI Agent Backend Abstraction Library\n\nUsage:\n"
    \o "  cilantro init                       Initialize Cilantro configuration\n"
    \o "  cilantro backends                   List available backends\n"
    \o "  cilantro \"<prompt>\"                 Execute a prompt in headless mode\n"
    \o "  cilantro --backend=<name> \"<prompt>\" Execute with specific backend\n"
    \o "  cilantro help                       Show this help message\n"
\* The two status marks of the listings (U+2705 and U+274C in the source).
InstalledMark == "[installed]"
MissingMark == "[missing]"
\* process.cwd()
Cwd == "/tmp/test"

\* process.exit(code): the exit status is the low eight bits of the code
ExitStatus(code) == code % 256

\* initCommand, lines 95-99: one line of the listing
InitLine(backend) ==
    "  " \o (IF Truthy(backend.installed) THEN InstalledMark ELSE MissingMark)
         \o " " \o backend.name
         \o (IF Truthy(backend.installed) THEN "" ELSE " (not found)")

NoBackendLines ==
    <<"\nNo AI agent backend detected. Please install one of:",
      "- Claude Code: https://docs.anthropic.com/claude-code",
      "- Codex CLI: https://github.com/openai/codex",
      "- Cursor Agent: https://cursor.com",
      "\nThen run 'cilantro init' again.">>

\* detected.filter((b) => b.installed): the indices kept, and the first
InstalledIndices(report) == {i \in 1..Len(report) : Truthy(report[i].installed)}
FirstInstalled(report) ==
    report[CHOOSE i \in InstalledIndices(report) :
               \A j \in InstalledIndices(report) : i <= j]

\* a default that is the last of the installed adapters
InitConfigLastInstalled(report) ==
    Config(JsStr(report[CHOOSE i \in InstalledIndices(report) :
                            \A j \in InstalledIndices(report) : i >= j].name),
           JsObj(KnownSpecs), JsNum(DefaultTimeout))

\* a default that is the command of the first installed adapter, not its name
InitConfigCommand(report) ==
    Config(JsStr((CHOOSE sp \in KnownSpecs : sp.name = FirstInstalled(report).name).command),
           JsObj(KnownSpecs), JsNum(DefaultTimeout))

\* initCommand, lines 117-136: the configuration that is saved
InitConfigOf(report) ==
    Config(JsStr(FirstInstalled(report).name), JsObj(KnownSpecs), JsNum(DefaultTimeout))

YesNo(b) == IF b THEN "Yes" ELSE "No"

\* backendsCommand, lines 152-161: the lines printed for one adapter
BackendLines(backend, config) ==
    <<backend.name \o (IF JsStr(backend.name) = config.defaultBackend
                       THEN " (default)" ELSE ""),
      "  Status: " \o (IF Truthy(backend.installed)
                       THEN InstalledMark \o " Installed"
                       ELSE MissingMark \o " Not found"),
      "  Capabilities:",
      "    - Read codebase: " \o YesNo(backend.capabilities.canReadCodebase),
      "    - JSON output: " \o YesNo(backend.capabilities.supportsJsonOutput),
      "">>

RECURSIVE AllBackendLines(_, _, _)
AllBackendLines(report, i, config) ==
    IF i > Len(report) THEN <<>>
    ELSE BackendLines(report[i], config) \o AllBackendLines(report, i + 1, config)

\* executeCommand, lines 175-176
CliResolveBackendName(backendOverride, environment, config) ==
    JsOr(JsOr(backendOverride, environment), config.defaultBackend)

\* The program starts with the arguments a.
CliStart(a) ==
    /\ op = "none"
    /\ op' = "cli"
    /\ pc' = "main"
    /\ args' = a
    /\ UNCHANGED <<worldVars, callVars, mockVars, procVars, confVars, stdoutLog,
                   stderrLog, exitStatus, detectVars>>

\* main, lines 46-63, up to the first await of the command chosen
CliMain(fails) ==
    /\ op = "cli"
    /\ pc = "main"
    /\ CommandKind(args) # "init" => fails = {}
    /\ CASE CommandKind(args) = "help" ->
              /\ stdoutLog' = Append(stdoutLog, HelpText)
              /\ exitStatus' = ExitStatus(0)
              /\ pc' = "done"
              /\ UNCHANGED probes
         [] CommandKind(args) = "init" ->
              /\ stdoutLog' = Append(stdoutLog, "Detecting AI agent backends...\n")
              /\ probes' = SpawnProbes(registry, fails)
              /\ pc' = "detect_wait"
              /\ UNCHANGED exitStatus
         [] OTHER ->
              /\ pc' = "init_exists"
              /\ UNCHANGED <<stdoutLog, exitStatus, probes>>
    /\ UNCHANGED <<worldVars, op, callVars, mockVars, procVars, confVars, args, stderrLog,
                   detected>>

\* backendsCommand 143-147, executeCommand 165-169: isInitialized has settled
CliAfterIsInitialized ==
    /\ op = "cli"
    /\ pc = "init_ret"
    /\ IF ~Truthy(initialized)
       THEN /\ stderrLog' = Append(stderrLog, "Error: " \o CilantroNotInitializedError.msg)
            /\ exitStatus' = ExitStatus(1)
            /\ pc' = "done"
       ELSE /\ pc' = "load_exists"
            /\ UNCHANGED <<stderrLog, exitStatus>>
    /\ UNCHANGED <<worldVars, op, callVars, mockVars, procVars, confVars, args, stdoutLog,
                   detectVars>>

\* backendsCommand, lines 147-148: loadConfig has settled, detectBackends()
CliBackendsDetect(fails) ==
    /\ op = "cli"
    /\ pc = "loaded"
    /\ Truthy(initialized)
    /\ CommandKind(args) = "backends"
    /\ IF loaded.kind = "error"
       THEN /\ fails = {}
            /\ stderrLog' = Append(stderrLog, "Error: " \o loaded.msg)
            /\ exitStatus' = ExitStatus(1)
            /\ pc' = "done"
            /\ UNCHANGED probes
       ELSE /\ probes' = SpawnProbes(registry, fails)
            /\ pc' = "detect_wait"
            /\ UNCHANGED <<stderrLog, exitStatus>>
    /\ UNCHANGED <<worldVars, op, callVars, mockVars, procVars, confVars, args, stdoutLog,
                   detected>>

\* backendsCommand, lines 150-161
CliBackendsFinish ==
    /\ op = "cli"
    /\ pc = "detect_ret"
    /\ CommandKind(args) = "backends"
    /\ IF outcome.kind = "raised"
       THEN /\ stderrLog' = Append(stderrLog, "Error: " \o outcome.msg)
            /\ exitStatus' = ExitStatus(1)
            /\ UNCHANGED stdoutLog
       ELSE /\ stdoutLog' = (Append(stdoutLog, "Available backends:\n")
                               \o AllBackendLines(detected, 1, loaded.config))
            /\ exitStatus' = ExitStatus(0)
            /\ UNCHANGED stderrLog
    /\ pc' = "done"
    /\ UNCHANGED <<worldVars, op, callVars, mockVars, procVars, confVars, args, detectVars>>

\* executeCommand, lines 169-187: loadConfig has settled; the checks, then
\* backend.execute(...)
CliExecuteResolve ==
    /\ op = "cli"
    /\ pc = "loaded"
    /\ Truthy(initialized)
    /\ CommandKind(args) = "prompt"
    /\ LET backendOverride == ParseArgs(args).backendOverride
           backendName == CliResolveBackendName(backendOverride, env, loaded.config)
           thrown == IF loaded.kind = "error" THEN loaded.msg
                     ELSE IF loaded.kind = "null" THEN CilantroNotInitializedError.msg
                     ELSE IF GetBackend(registry, backendName) = NoBackend
                     THEN BackendNotFoundError(backendName).msg
                     ELSE "" IN
       IF thrown # ""
       THEN /\ stderrLog' = Append(stderrLog, "Error: " \o thrown)
            /\ exitStatus' = ExitStatus(1)
            /\ pc' = "done"
            /\ UNCHANGED <<adapter, execOpts, invoked>>
       ELSE /\ adapter' = GetBackend(registry, backendName)
            /\ execOpts' = ExecuteOptions(Command(args).s, Cwd, loaded.config.timeout)
            /\ invoked' = invoked + 1
            /\ pc' = "exec_start"
            /\ UNCHANGED <<stderrLog, exitStatus>>
    /\ UNCHANGED <<worldVars, op, opts, loaded, execOut, outcome, mockVars, procVars,
                   confVars, args, stdoutLog, detectVars>>

\* an executeCommand that prints the error of a failed run with console.log
CliExecuteFinishLogsError ==
    /\ op = "cli"
    /\ pc = "exec_ret"
    /\ LET result == execOut.result IN
       IF result.success
       THEN /\ stdoutLog' = Append(stdoutLog, ToStr(result.output))
            /\ exitStatus' = ExitStatus(0)
       ELSE /\ stdoutLog' = Append(stdoutLog,
                                   ToStr(JsOr(result.error, JsStr("Execution failed"))))
            /\ exitStatus' = ExitStatus(JsOr(JsNum(result.exitCode), JsNum(1)).n)
    /\ pc' = "done"
    /\ outcome' = execOut
    /\ UNCHANGED <<worldVars, op, opts, loaded, adapter, execOpts, execOut, invoked,
                   mockVars, procVars, confVars, args, stderrLog, detectVars>>

\* executeCommand, lines 189-195
CliExecuteFinish ==
    /\ op = "cli"
    /\ pc = "exec_ret"
    /\ IF execOut.kind = "raised"
       THEN /\ stderrLog' = Append(stderrLog, "Error: " \o execOut.msg)
            /\ exitStatus' = ExitStatus(1)
            /\ UNCHANGED stdoutLog
       ELSE LET result == execOut.result IN
            IF result.success
            THEN /\ stdoutLog' = Append(stdoutLog, ToStr(result.output))
                 /\ exitStatus' = ExitStatus(0)
                 /\ UNCHANGED stderrLog
            ELSE /\ stderrLog' = Append(stderrLog,
                                        ToStr(JsOr(result.error, JsStr("Execution failed"))))
                 /\ exitStatus' = ExitStatus(JsOr(JsNum(result.exitCode), JsNum(1)).n)
                 /\ UNCHANGED stdoutLog
    /\ pc' = "done"
    /\ outcome' = execOut
    /\ UNCHANGED <<worldVars, op, opts, loaded, adapter, execOpts, execOut, invoked,
                   mockVars, procVars, confVars, args, detectVars>>

\* initCommand, lines 92-139: the report is there
CliInitFinish ==
    /\ op = "cli"
    /\ pc = "detect_ret"
    /\ CommandKind(args) = "init"
    /\ IF outcome.kind = "raised"
       THEN /\ stderrLog' = Append(stderrLog, "Error: " \o outcome.msg)
            /\ exitStatus' = ExitStatus(1)
            /\ UNCHANGED <<stdoutLog, file>>
       ELSE LET listing == Append(stdoutLog, "Detected backends:")
                              \o [i \in 1..Len(detected) |-> InitLine(detected[i])] IN
            IF InstalledIndices(detected) = {}
            THEN /\ stdoutLog' = listing
                 /\ stderrLog' = stderrLog \o NoBackendLines
                 /\ exitStatus' = ExitStatus(1)
                 /\ UNCHANGED file
            ELSE /\ file' = JSONStringify(InitConfigOf(detected))
                 /\ stdoutLog' = Append(listing,
                                        "\nCilantro initialized! Default backend: "
                                           \o FirstInstalled(detected).name)
                 /\ exitStatus' = ExitStatus(0)
                 /\ UNCHANGED stderrLog
    /\ pc' = "done"
    /\ UNCHANGED <<env, registry, op, callVars, mockVars, procVars, confVars, args,
                   detectVars>>

(***************************************************************************)
(* Specifications.  All are the same machine; they differ in the           *)
(* operations the caller performs and in the inputs that are enumerated.   *)
(***************************************************************************)
\* The configuration store: every kind of file text, loadConfig, saveConfig.
InitConfig ==
    /\ Init
    /\ env = Undef
    /\ registry = ProductionRegistry

NextConfig ==
    \/ \E text \in FileTexts : ExternalWrite(text)
    \/ ExternalDelete
    \/ \E config \in SaveInputs : SaveConfig(config)
    \/ LoadConfigStart
    \/ LoadExists
    \/ LoadRead
    \/ LoadConfigReturn
    \/ IsInitializedStart
    \/ IsInitializedExists
    \/ IsInitializedSettle
    \/ IsInitializedReturn
    \/ Finish

SpecConfig == InitConfig /\ [][NextConfig]_vars

\* The facade executePrompt over both registries.
FacadeTexts ==
    {MalformedText,
     ObjectText(JsStr("claude"), JsObj(KnownSpecs), JsStr("120000")),
     ObjectText(JsStr("mock"), JsObj(MockSpecs), JsNum(DefaultTimeout)),
     ObjectText(JsStr("claude"), JsObj(KnownSpecs), JsNum(CustomTimeout))}

\* The configurations the caller saves.
FacadeConfigs ==
    {Config(JsStr("mock"), JsObj(MockSpecs), JsNum(DefaultTimeout)),
     Config(JsStr("claude"), JsObj(KnownSpecs), JsNum(CustomTimeout))}

InitFacade ==
    /\ Init
    /\ file \in {NoFile} \cup FacadeTexts

Next ==
    \/ \E text \in FacadeTexts : ExternalWrite(text)
    \/ ExternalDelete
    \/ \E config \in FacadeConfigs : SaveConfig(config)
    \/ \E v \in EnvValues : SetEnv(v)
    \/ \E options \in ExecutePromptOptions : ExecutePromptStart(options)
    \/ LoadExists
    \/ LoadRead
    \/ ExecutePromptResolve
    \/ ExecutePromptReturn
    \/ Finish
    \/ MockResponse("What is 2+2?", "2+2 = 4")
    \/ MockError("bad prompt", "Execution failed", 1)
    \/ ClearCalls
    \/ MockExecute
    \/ AdapterSpawn
    \/ AdapterSpawnFails
    \/ \E code \in ExitCodes, err \in StderrSamples : ProcExit(code, StdoutPlain, err)
    \/ ProcTerminated(StdoutPlain, "")
    \/ TimerFire
    \/ AwaitExited
    \/ ReadStreams
    \/ ReadStreamsFails

Spec == InitFacade /\ [][Next]_vars

\* The adapters' execute, called directly, over every text a process prints.
DirectTimeouts == {Undef, JsNum(0), JsNum(CustomTimeout)}

InitAdapter ==
    /\ Init
    /\ file = NoFile
    /\ env = Undef
    /\ registry = ProductionRegistry

NextAdapter ==
    \/ \E name \in ProcessAdapters, p \in Prompts, d \in Dirs, t \in DirectTimeouts :
          AdapterExecuteStart(name, ExecuteOptions(p, d, t))
    \/ AdapterSpawn
    \/ AdapterSpawnFails
    \/ \E code \in ExitCodes, out \in StdoutSamples, err \in StderrSamples :
          ProcExit(code, out, err)
    \/ \E out \in StdoutSamples, err \in StderrSamples : ProcTerminated(out, err)
    \/ TimerFire
    \/ AwaitExited
    \/ ReadStreams
    \/ ReadStreamsFails
    \/ AdapterExecuteReturn
    \/ Finish

SpecAdapter == InitAdapter /\ [][NextAdapter]_vars

\* detectBackends, called directly, over both registries.
InitDetect ==
    /\ Init
    /\ file = NoFile
    /\ env = Undef

NextDetect ==
    \/ \E fails \in SUBSET (1..Len(registry)) : DetectBackendsStart(fails)
    \/ \E i \in 1..Len(registry), code \in ExitCodes : ProbeExit(i, code)
    \/ \E i \in 1..Len(registry) : ProbeSettle(i)
    \/ DetectBackendsSettle
    \/ DetectBackendsReturn
    \/ Finish

SpecDetect == InitDetect /\ [][NextDetect]_vars

\* The command line program, over the production registry.
ArgLists ==
    {<<>>, <<"help">>, <<"init">>, <<"backends">>,
     <<"What is 2+2?">>,
     <<"--backend=claude", "What is 2+2?">>,
     <<"--backend", "codex", "What is 2+2?">>,
     <<"What is 2+2?", "--backend", "mock">>,
     <<"--backend=", "What is 2+2?">>,
     <<"--backend", "codex">>,
     <<"--backend">>,
     <<"What is 2+2?", "--backend">>}

CliTexts ==
    {MalformedText,
     ObjectText(JsStr("claude"), JsObj(KnownSpecs), JsNum(DefaultTimeout)),
     ObjectText(JsStr("mock"), JsObj(MockSpecs), JsNum(DefaultTimeout))}

CliEnvValues == {Undef, JsStr("codex")}

InitCli ==
    /\ Init
    /\ file \in {NoFile} \cup CliTexts
    /\ env \in CliEnvValues
    /\ registry = ProductionRegistry

NextCli ==
    \/ \E text \in CliTexts : ExternalWrite(text)
    \/ ExternalDelete
    \/ \E a \in ArgLists : CliStart(a)
    \/ \E fails \in SUBSET (1..Len(registry)) : CliMain(fails)
    \/ IsInitializedExists
    \/ LoadExists
    \/ LoadRead
    \/ IsInitializedSettle
    \/ CliAfterIsInitialized
    \/ \E fails \in SUBSET (1..Len(registry)) : CliBackendsDetect(fails)
    \/ \E i \in 1..Len(registry), code \in ExitCodes : ProbeExit(i, code)
    \/ \E i \in 1..Len(registry) : ProbeSettle(i)
    \/ DetectBackendsSettle
    \/ CliInitFinish
    \/ CliBackendsFinish
    \/ CliExecuteResolve
    \/ AdapterSpawn
    \/ AdapterSpawnFails
    \/ \E code \in ExitCodes, err \in StderrSamples : ProcExit(code, StdoutPlain, err)
    \/ ProcTerminated(StdoutPlain, "")
    \/ TimerFire
    \/ AwaitExited
    \/ ReadStreams
    \/ ReadStreamsFails
    \/ CliExecuteFinish
    \/ Finish

SpecCli == InitCli /\ [][NextCli]_vars

\* The library and the command line program together, over the production
\* registry, with no other process writing the configuration file.
SystemConfigs ==
    {Config(JsStr("mock"), JsObj(MockSpecs), JsNum(DefaultTimeout)),
     Config(JsStr("claude"), JsObj(KnownSpecs), JsNum(CustomTimeout))}

SystemOptions ==
    {[prompt |-> "What is 2+2?", workingDirectory |-> "/tmp/test", backend |-> b,
      timeout |-> Undef] : b \in {Undef, JsStr("mock")}}

SystemArgLists == {<<"help">>, <<"init">>, <<"backends">>, <<"What is 2+2?">>}

InitSystem ==
    /\ Init
    /\ file \in {NoFile, MalformedText}
    /\ env = Undef
    /\ registry = ProductionRegistry

NextSystem ==
    \/ \E config \in SystemConfigs : SaveConfig(config)
    \/ LoadConfigStart
    \/ LoadExists
    \/ LoadRead
    \/ LoadConfigReturn
    \/ IsInitializedStart
    \/ IsInitializedExists
    \/ IsInitializedSettle
    \/ IsInitializedReturn
    \/ \E options \in SystemOptions : ExecutePromptStart(options)
    \/ ExecutePromptResolve
    \/ ExecutePromptReturn
    \/ \E fails \in SUBSET (1..Len(registry)) : DetectBackendsStart(fails)
    \/ \E i \in 1..Len(registry), code \in ExitCodes : ProbeExit(i, code)
    \/ \E i \in 1..Len(registry) : ProbeSettle(i)
    \/ DetectBackendsSettle
    \/ DetectBackendsReturn
    \/ \E a \in SystemArgLists : CliStart(a)
    \/ \E fails \in SUBSET (1..Len(registry)) : CliMain(fails)
    \/ CliAfterIsInitialized
    \/ \E fails \in SUBSET (1..Len(registry)) : CliBackendsDetect(fails)
    \/ CliInitFinish
    \/ CliBackendsFinish
    \/ CliExecuteResolve
    \/ CliExecuteFinish
    \/ AdapterSpawn
    \/ AdapterSpawnFails
    \/ \E code \in ExitCodes : ProcExit(code, StdoutPlain, "")
    \/ ProcTerminated(StdoutPlain, "")
    \/ TimerFire
    \/ AwaitExited
    \/ ReadStreams
    \/ ReadStreamsFails
    \/ Finish

SpecSystem == InitSystem /\ [][NextSystem]_vars

(***************************************************************************)
(* Properties.                                                             *)
(***************************************************************************)
NonEmpty(v) == v.t = "string" /\ v.s # ""

\* The backend name the priority order selects, stated on its own.
FirstNonEmptyName ==
    IF NonEmpty(opts.backend) THEN opts.backend
    ELSE IF NonEmpty(env) THEN env
    ELSE loaded.config.defaultBackend

C1_ExistsStep ==
    (op = "executePrompt" /\ pc = "load_exists" /\ ~file.exists /\ pc' # pc)
        => loaded' = LoadNull

C1_State ==
    (op = "executePrompt" /\ loaded = LoadNull) =>
        /\ pc \in {"loaded", "done"}
        /\ invoked = 0
        /\ spawned = 0
        /\ adapter = NoBackend
        /\ pc = "done" => (outcome.kind = "raised"
                           /\ outcome.error = "CilantroNotInitializedError")

\* C1: when executePrompt finds no configuration file, its load gives null,
\* it raises CilantroNotInitializedError, and no adapter's execute is invoked
\* and nothing is spawned, whatever the prompt, the backend option and
\* CILANTRO_BACKEND are.
C1_NotInitialized == [][C1_ExistsStep]_vars /\ []C1_State

C1_Witness ==
    /\ op = "executePrompt"
    /\ pc = "done"
    /\ loaded = LoadNull
    /\ ~file.exists
    /\ opts.backend.s \in Names(registry)
    /\ outcome.error = "CilantroNotInitializedError"

\* C2: with a configuration loaded, a resolved backend name that is no
\* adapter's name (compared exactly) makes executePrompt raise
\* BackendNotFoundError with that name in the message, with no adapter's
\* execute invoked and nothing spawned.
C2_BackendNotFound ==
    (/\ op = "executePrompt"
     /\ loaded.kind = "config"
     /\ pc # "loaded"
     /\ FirstNonEmptyName.s \notin Names(registry)) =>
        /\ pc = "done"
        /\ outcome.kind = "raised"
        /\ outcome.error = "BackendNotFoundError"
        /\ outcome.msg = "Backend '" \o FirstNonEmptyName.s
                           \o "' not found. Run 'cilantro init' to reconfigure."
        /\ invoked = 0
        /\ spawned = 0
        /\ adapter = NoBackend

C2_Witness ==
    /\ op = "executePrompt"
    /\ pc = "done"
    /\ registry = ProductionRegistry
    /\ opts.backend = JsStr("Claude")
    /\ outcome.error = "BackendNotFoundError"
    /\ outcome.msg = "Backend 'Claude' not found. Run 'cilantro init' to reconfigure."

\* C3: the adapter executePrompt uses is the one named by the first non-empty
\* of the per-call backend option, CILANTRO_BACKEND and the configuration's
\* defaultBackend; when that name is no adapter's, no adapter is used (the
\* lower-priority values are not tried).
C3_Priority ==
    (op = "executePrompt" /\ loaded.kind = "config" /\ pc # "loaded") =>
        IF FirstNonEmptyName.s \in Names(registry)
        THEN adapter = FirstNonEmptyName.s /\ invoked = 1
        ELSE adapter = NoBackend /\ invoked = 0

C3_Witness ==
    /\ op = "executePrompt"
    /\ pc = "done"
    /\ opts.backend = JsStr("claude")
    /\ env = JsStr("codex")
    /\ loaded.config.defaultBackend = JsStr("mock")
    /\ adapter = "claude"
    /\ outcome.result.backend = "claude"

\* the environment value wins when the option is not given or empty
C3_WitnessEnv ==
    /\ op = "executePrompt"
    /\ pc = "done"
    /\ opts.backend = JsStr("")
    /\ env = JsStr("codex")
    /\ loaded.config.defaultBackend = JsStr("claude")
    /\ adapter = "codex"

\* the configuration's default wins when both are unset or empty
C3_WitnessDefault ==
    /\ op = "executePrompt"
    /\ pc = "done"
    /\ opts.backend = Undef
    /\ env = JsStr("")
    /\ loaded.config.defaultBackend = JsStr("mock")
    /\ adapter = "mock"

\* a higher-priority name that is no adapter's is not passed over
C3_WitnessNoFallThrough ==
    /\ op = "executePrompt"
    /\ pc = "done"
    /\ opts.backend = JsStr("mock")
    /\ env = JsStr("codex")
    /\ registry = ProductionRegistry
    /\ outcome.error = "BackendNotFoundError"

\* C4: once both pre-flight checks have passed, executePrompt returns the
\* very result the adapter's execute gave, successful or not, and raises
\* nothing; whenever it raises, no adapter was invoked.
C4_ResultUnchanged ==
    (op = "executePrompt" /\ pc = "done") =>
        /\ invoked = 1 => (/\ execOut.kind = "returned"
                           /\ outcome.kind = "returned"
                           /\ outcome.result = execOut.result)
        /\ outcome.kind = "raised" =>
              (/\ invoked = 0
               /\ outcome.error \in {"CilantroNotInitializedError",
                                     "BackendNotFoundError", "Error"})

C4_Witness ==
    /\ op = "executePrompt"
    /\ pc = "done"
    /\ invoked = 1
    /\ outcome.kind = "returned"
    /\ ~outcome.result.success
    /\ outcome.result.exitCode = 1
    /\ outcome.result.error = JsStr("Execution failed")

\* C5: the timeout passed to the adapter's execute is the per-call timeout
\* whenever one is given, whatever number it is, and the configuration's
\* timeout otherwise.
C5_TimeoutOverride ==
    (op = "executePrompt" /\ invoked = 1) =>
        execOpts.timeout = IF opts.timeout.t = "number" THEN opts.timeout
                           ELSE loaded.config.timeout

AtAdapterReturn == pc \in {"exec_ret", "done"} /\ adapter \in {"claude", "codex"}

\* C6: execute of the Claude and Codex adapters always returns a result and
\* never raises; when the spawn or a stream read throws, the result has
\* success = false, exit code -1, empty stdout and the error's message as
\* error; when the process ends with a non-zero code (its own, or the one
\* of the SIGTERM that ended it) the result has success = false, that exit
\* code and a non-empty error.
C6_NeverRaises ==
    AtAdapterReturn =>
        LET r == execOut.result IN
        /\ execOut.kind = "returned"
        /\ r.backend = adapter
        /\ (spawned = 1 /\ proc.state = "none") => caught = SpawnErrorMessage
        /\ caught # "" => (/\ ~r.success
                           /\ r.exitCode = -1
                           /\ r.stdout = ""
                           /\ r.error = JsStr(caught))
        /\ (caught = "" /\ exitCode # 0) => (/\ ~r.success
                                             /\ r.exitCode = exitCode
                                             /\ NonEmpty(r.error))

C6_Witness ==
    /\ op = "execute"
    /\ pc = "done"
    /\ adapter = "codex"
    /\ proc.state = "none"
    /\ outcome.kind = "returned"
    /\ outcome.result.exitCode = -1
    /\ outcome.result.error = JsStr(SpawnErrorMessage)

\* the process ended by the timer's SIGTERM
C6_WitnessKilled ==
    /\ op = "execute"
    /\ pc = "done"
    /\ adapter = "claude"
    /\ kills = <<"running">>
    /\ outcome.kind = "returned"
    /\ ~outcome.result.success
    /\ outcome.result.exitCode = SigtermExitCode

\* C7: when the timer fires while the process is still running, the call
\* returns a result with success = false and an exit code that is not one
\* of a normal exit, whatever the process does.
C7_TimeoutLaw ==
    (AtAdapterReturn /\ kills = <<"running">>) =>
        /\ execOut.kind = "returned"
        /\ ~execOut.result.success
        /\ execOut.result.exitCode \notin ExitCodes

\* C8: after a non-zero exit code the result of the Claude and of the Codex
\* adapter has the empty string as output, and as error the standard-error
\* text, or "Execution failed" when that text is empty.
C8_NonZeroExit ==
    (AtAdapterReturn /\ caught = "" /\ exitCode # 0) =>
        /\ execOut.result.output = JsStr("")
        /\ execOut.result.error = IF proc.err # "" THEN JsStr(proc.err)
                                  ELSE JsStr("Execution failed")

\* The value of the first of result, response, output that the parsed
\* object has.
FirstPresentField(parsed) ==
    IF parsed.result # Undef THEN parsed.result
    ELSE IF parsed.response # Undef THEN parsed.response
    ELSE parsed.output

\* C9: on exit code 0 the Claude adapter's output is the value of the first
\* of the fields result, response, output present in the parsed standard
\* output, and standard output verbatim when it does not parse or has none
\* of them; the Codex adapter's output is standard output verbatim.
C9_Normalization ==
    (AtAdapterReturn /\ caught = "" /\ exitCode = 0) =>
        LET parsed == JSONParse(proc.out) IN
        IF adapter = "claude" /\ parsed.ok /\ FirstPresentField(parsed) # Undef
        THEN execOut.result.output = FirstPresentField(parsed)
        ELSE execOut.result.output = JsStr(proc.out)

\* The text has the three required fields.
HasRequiredFields(text) ==
    /\ text.json
    /\ text.top = "object"
    /\ NonEmpty(text.defaultBackend)
    /\ text.backends.t = "object"
    /\ text.timeout.t = "number"

C10_ExistsStep ==
    (op = "loadConfig" /\ pc = "load_exists" /\ pc' # pc) =>
        IF ~file.exists THEN pc' = "loaded" /\ loaded' = LoadNull
        ELSE pc' = "load_read" /\ loaded' = LoadPending

C10_ReadStep ==
    (op = "loadConfig" /\ pc = "load_read" /\ pc' # pc /\ file.exists) =>
        IF HasRequiredFields(file)
        THEN loaded' = LoadOk(Config(file.defaultBackend, file.backends, file.timeout))
        ELSE loaded'.kind = "error" /\ loaded'.msg # ""

C10_State ==
    (op = "loadConfig" /\ pc = "done") =>
        /\ loaded.kind \in {"null", "config", "error"}
        /\ loaded.kind = "error" <=> outcome.kind = "raised"
        /\ loaded.kind = "error" => outcome.msg = loaded.msg
        /\ loaded.kind = "config" =>
              (/\ NonEmpty(loaded.config.defaultBackend)
               /\ loaded.config.backends.t = "object"
               /\ loaded.config.timeout.t = "number")

\* C10: loadConfig returns null when its existence check finds no file;
\* reading a file that is malformed JSON or lacks a non-empty
\* defaultBackend, an object-valued backends or a numeric timeout raises an
\* error with a message; reading any other file returns the parsed
\* configuration; every configuration returned has the three fields.
C10_LoadOutcomes == [][C10_ExistsStep /\ C10_ReadStep]_vars /\ []C10_State

C10_Witness ==
    /\ op = "loadConfig"
    /\ pc = "done"
    /\ file = ObjectText(JsStr("claude"), JsObj(KnownSpecs), JsStr("120000"))
    /\ outcome.kind = "raised"
    /\ outcome.msg = "Config missing or invalid 'timeout' field"

\* C11: isInitialized never raises, and it returns true exactly when the
\* loadConfig it called returned a configuration: it returns false when the
\* file is missing (loadConfig absent) and when loadConfig raised.
C11_IsInitialized ==
    (op = "isInitialized" /\ pc = "done") =>
        /\ outcome.kind = "returned"
        /\ initialized \in {JsBool(TRUE), JsBool(FALSE)}
        /\ initialized = JsBool(TRUE) <=> loaded.kind = "config"

\* The value passes the validation loadConfig applies: a non-empty
\* defaultBackend, an object-valued backends, a timeout of type number.
ValidConfig(c) ==
    /\ NonEmpty(c.defaultBackend)
    /\ c.backends.t = "object"
    /\ c.timeout.t = "number"

\* C12: saveConfig(c) of a valid configuration c leaves a file from which
\* loadConfig gives a configuration equal to c, whatever the file held
\* before; saving c again leaves the file as it is.
C12_RoundTrip ==
    [][\A c \in SaveInputs :
          (ValidConfig(c) /\ SaveConfig(c)) =>
              /\ ParseAndValidate(file') = LoadOk(c)
              /\ JSONStringify(c) = file => file' = file]_vars

\* The same for configurations whose timeout is a finite number.
C12_RoundTripFinite ==
    [][\A c \in SaveInputs :
          (ValidConfig(c) /\ c.timeout # JsNaN /\ SaveConfig(c)) =>
              /\ ParseAndValidate(file') = LoadOk(c)
              /\ JSONStringify(c) = file => file' = file]_vars

C13_ReadStep ==
    (op = "executePrompt" /\ pc = "load_read" /\ pc' # pc /\ file.exists
       /\ ~HasRequiredFields(file)) =>
        /\ loaded'.kind = "error"
        /\ loaded'.msg # ""

C13_State ==
    (op = "executePrompt" /\ pc = "done" /\ loaded.kind = "error") =>
        /\ outcome.kind = "raised"
        /\ outcome.error # CilantroNotInitializedError.error
        /\ outcome.msg = loaded.msg
        /\ adapter = NoBackend
        /\ invoked = 0
        /\ spawned = 0
        /\ proc = NoProc

\* C13: when executePrompt reads a file that is malformed JSON or fails
\* validation, it raises an error that is not CilantroNotInitializedError
\* and carries loadConfig's message, having looked up and executed no
\* adapter and spawned no process.
C13_InvalidConfig == [][C13_ReadStep]_vars /\ []C13_State

C13_Witness ==
    /\ op = "executePrompt"
    /\ pc = "done"
    /\ file = ObjectText(JsStr("claude"), JsObj(KnownSpecs), JsStr("120000"))
    /\ outcome.kind = "raised"
    /\ outcome.error = "Error"
    /\ outcome.msg = "Config missing or invalid 'timeout' field"
    /\ invoked = 0

C13_WitnessMalformed ==
    /\ op = "executePrompt"
    /\ pc = "done"
    /\ file = MalformedText
    /\ outcome.kind = "raised"
    /\ outcome.msg = "Invalid JSON in config file: " \o SyntaxErrorMessage

\* What the detect() of adapter i gave.
Installed(i) ==
    JsBool(registry[i] = "mock" \/ (~probes[i].threw /\ probes[i].code = 0))

\* C14: the report of detectBackends has one entry per adapter of the
\* registry, in registry order, whatever the order in which the probes
\* completed; entry i has the name, the detect() result and the capabilities
\* of adapter i.
C14_OrderPreserved ==
    (op = "detectBackends" /\ pc = "done") =>
        /\ Len(detected) = Len(registry)
        /\ \A i \in 1..Len(registry) :
              /\ detected[i].name = registry[i]
              /\ detected[i].installed = Installed(i)
              /\ detected[i].capabilities = Capabilities(registry[i])

\* the last adapter's probe completed first and the first one's last
C14_Witness ==
    /\ op = "detectBackends"
    /\ pc = "done"
    /\ registry = ProductionRegistry
    /\ probes[3].seq = 1
    /\ probes[1].seq = 3
    /\ detected[1] = DetectedBackend("claude", JsBool(TRUE), ClaudeCapabilities)
    /\ detected[2] = DetectedBackend("codex", JsBool(FALSE), CodexCapabilities)

C16_ResultShape ==
    (AtAdapterReturn /\ execOut.kind = "returned") =>
        LET r == execOut.result IN
        /\ r.error # Undef <=> ~r.success
        /\ r.success <=> r.exitCode = 0

C16_Witness ==
    /\ op = "execute"
    /\ pc = "done"
    /\ adapter = "codex"
    /\ proc.state = "exited"
    /\ proc.err = "boom"
    /\ outcome.kind = "returned"
    /\ outcome.result.exitCode = 0
    /\ outcome.result.success
    /\ outcome.result.error = Undef

C16_WitnessFailure ==
    /\ op = "execute"
    /\ pc = "done"
    /\ adapter = "claude"
    /\ proc.err = ""
    /\ outcome.kind = "returned"
    /\ outcome.result.exitCode = 1
    /\ ~outcome.result.success
    /\ outcome.result.error = JsStr("Execution failed")

\* The prompt command has ended.
AtPromptEnd == op = "cli" /\ pc = "done" /\ CommandKind(args) = "prompt"

\* The message of the internal error the prompt command raised.
InternalErrorMessage ==
    IF ~Truthy(initialized) \/ loaded.kind = "null" THEN CilantroNotInitializedError.msg
    ELSE IF loaded.kind = "error" THEN loaded.msg
    ELSE BackendNotFoundError(
             CliResolveBackendName(ParseArgs(args).backendOverride, env, loaded.config)).msg

\* The outcome of the prompt command, with the exit status of a failed run
\* either the adapter's exit code as it is or its low eight bits.
CliPromptOutcome(lowBits) ==
    AtPromptEnd =>
        /\ exitStatus = 0 <=> (execOut.kind = "returned" /\ execOut.result.success)
        /\ (execOut.kind = "returned" /\ execOut.result.success) =>
              /\ stdoutLog = <<ToStr(execOut.result.output)>>
              /\ stderrLog = <<>>
        /\ (execOut.kind = "returned" /\ ~execOut.result.success) =>
              LET code == IF execOut.result.exitCode = 0 THEN 1
                          ELSE execOut.result.exitCode IN
              /\ stdoutLog = <<>>
              /\ stderrLog = <<ToStr(execOut.result.error)>>
              /\ exitStatus = IF lowBits THEN code % 256 ELSE code
        /\ execOut.kind # "returned" =>
              /\ stdoutLog = <<>>
              /\ stderrLog = <<"Error: " \o InternalErrorMessage>>
              /\ exitStatus = 1

\* C17 (as stated): the prompt command exits with 0 exactly when the adapter
\* result has success = true, and then standard output has the normalized
\* output and nothing else; after an adapter failure standard output is
\* empty, standard error has the error text and the exit code is the
\* adapter's exit code (1 when that is 0); after an internal error standard
\* error has the message and the exit code is 1.
C17_CliOutcomeAsStated == CliPromptOutcome(FALSE)

\* C17 (amended): the same, with the exit code after an adapter failure the
\* low eight bits of the adapter's exit code: 255 for the sentinel -1.
C17_CliOutcome == CliPromptOutcome(TRUE)

C17_Witness ==
    /\ AtPromptEnd
    /\ adapter = "claude"
    /\ execOut.kind = "returned"
    /\ execOut.result.exitCode = -1
    /\ stdoutLog = <<>>
    /\ stderrLog = <<SpawnErrorMessage>>
    /\ exitStatus = 255

C17_WitnessSuccess ==
    /\ AtPromptEnd
    /\ execOut.kind = "returned"
    /\ execOut.result.success
    /\ stdoutLog = <<StdoutPlain>>
    /\ exitStatus = 0

C17_WitnessInternal ==
    /\ AtPromptEnd
    /\ execOut.kind = "none"
    /\ stderrLog = <<"Error: " \o BackendNotFoundError(JsStr("mock")).msg>>
    /\ exitStatus = 1

\* The argument is a backend flag: `--backend' or `--backend=<name>'.
IsBackendFlag(arg) == arg = "--backend" \/ StartsWithBackendEq(arg)

\* The override and the command as stated: every `--backend=<name>' and
\* every `--backend <name>' pair sets the override, a `--backend' is never
\* the command, and the command is the first argument outside the flags.
RECURSIVE StatedParseFrom(_, _, _, _)
StatedParseFrom(a, i, override, command) ==
    IF i > Len(a) THEN [backendOverride |-> override, command |-> command]
    ELSE IF StartsWithBackendEq(a[i])
    THEN StatedParseFrom(a, i + 1, JsStr(SliceBackendEq(a[i])), command)
    ELSE IF a[i] = "--backend"
    THEN StatedParseFrom(a, i + 2, IF i + 1 <= Len(a) THEN JsStr(a[i + 1]) ELSE override,
                         command)
    ELSE StatedParseFrom(a, i + 1, override,
                         IF command = Undef THEN JsStr(a[i]) ELSE command)

\* C18: the backend override is the name of the last backend flag, no
\* backend flag and no value of one is the command or the prompt, the
\* command is the first argument that is not part of a backend flag, and the
\* adapter executed is that of the first non-empty of the override,
\* CILANTRO_BACKEND and the configuration's default.
C18_ParseArgs ==
    op = "cli" =>
        LET stated == StatedParseFrom(args, 1, Undef, Undef) IN
        /\ ParseArgs(args).backendOverride = stated.backendOverride
        /\ Command(args) = stated.command
        /\ Command(args) # Undef => ~IsBackendFlag(Command(args).s)
        /\ (pc = "exec_start" /\ CommandKind(args) = "prompt") =>
              JsStr(adapter) =
                 IF NonEmpty(stated.backendOverride) THEN stated.backendOverride
                 ELSE IF NonEmpty(env) THEN env
                 ELSE loaded.config.defaultBackend

C19_Report ==
    (op = "cli" /\ pc = "detect_ret" /\ outcome.kind # "raised") =>
        /\ Len(detected) = Len(registry)
        /\ \A i \in 1..Len(registry) :
              detected[i].name = registry[i] /\ detected[i].installed = Installed(i)

C19_InitStep ==
    (op = "cli" /\ pc = "detect_ret" /\ CommandKind(args) = "init" /\ pc' = "done") =>
        LET found == {i \in 1..Len(registry) : Installed(i) = JsBool(TRUE)} IN
        IF found = {}
        THEN exitStatus' = 1 /\ file' = file
        ELSE file' = ObjectText(JsStr(registry[CHOOSE i \in found : \A j \in found : i <= j]),
                                JsObj(KnownSpecs), JsNum(120000))

C19_WitnessNone ==
    /\ op = "cli"
    /\ pc = "done"
    /\ CommandKind(args) = "init"
    /\ InstalledIndices(detected) = {}
    /\ file = NoFile
    /\ stderrLog = NoBackendLines
    /\ exitStatus = 1

C20_State ==
    (op = "executePrompt" /\ pc = "done" /\ adapter # NoBackend) =>
        /\ invoked = 1
        /\ execOpts.prompt = opts.prompt
        /\ execOpts.workingDirectory = opts.workingDirectory
        /\ adapter \in ProcessAdapters => spawned = 1
        /\ adapter = "mock" => (calls # <<>> /\ calls[Len(calls)] = execOpts)

C20_CallStep ==
    (op = "executePrompt" /\ pc = "exec_start" /\ adapter = "mock" /\ pc' # pc) =>
        calls' = Append(calls, ExecuteOptions(opts.prompt, opts.workingDirectory,
                                              execOpts.timeout))

C20_OtherSteps ==
    calls' # calls => (calls' = <<>> \/ (pc = "exec_start" /\ adapter = "mock"))

\* C20: an executePrompt call that passes the pre-flight checks invokes the
\* adapter's execute once, with the caller's prompt and working directory;
\* each such call on the MockBackend appends one entry with the call's
\* prompt, working directory and timeout to the recorded calls, and nothing
\* else adds to them.
C20_ExactlyOnce == [][C20_CallStep /\ C20_OtherSteps]_vars /\ []C20_State

C20_Witness ==
    /\ op = "executePrompt"
    /\ pc = "done"
    /\ adapter = "mock"
    /\ invoked = 1
    /\ ~outcome.result.success
    /\ Len(calls) = 2
    /\ calls[1] = ExecuteOptions("What is 2+2?", "/tmp/test", JsNum(CustomTimeout))
    /\ calls[2] = ExecuteOptions("bad prompt", "/tmp/test", JsNum(DefaultTimeout))

\* C23: whatever another process does to the file during the call,
\* isInitialized returns true only if the loadConfig it called returned a
\* configuration, never when that loadConfig returned null.
C23_TrueOnlyIfLoaded ==
    (op = "isInitialized" /\ pc \in {"init_ret", "done"} /\ initialized = JsBool(TRUE)) =>
        /\ loaded.kind # "null"
        /\ loaded.kind = "config"

\* C24: the timer of an execute call calls proc.kill() at most once, never
\* on a process that has exited, and is not armed once execute has returned.
C24_TimerDiscipline ==
    adapter \in {"claude", "codex"} =>
        /\ Len(kills) <= 1
        /\ \A k \in 1..Len(kills) : kills[k] = "running"
        /\ pc \in {"exec_ret", "done"} => timer.state # "armed"

\* The same without the requirement that the process be running at the kill.
C24_AtMostOnceAndCleared ==
    adapter \in {"claude", "codex"} =>
        /\ Len(kills) <= 1
        /\ pc \in {"exec_ret", "done"} => timer.state # "armed"

\* C27: the output of every result the Claude adapter returns is a string:
\* the empty string, standard output, or an extracted field that is a
\* string.
C27_OutputIsString ==
    (AtAdapterReturn /\ adapter = "claude" /\ execOut.kind = "returned") =>
        LET output == execOut.result.output
            parsed == JSONParse(proc.out) IN
        /\ output.t = "string"
        /\ \/ output = JsStr("")
           \/ output = JsStr(proc.out)
           \/ (parsed.ok /\ output \in {parsed.result, parsed.response, parsed.output})

C22_ExistsStep ==
    (op = "executePrompt" /\ pc = "load_exists" /\ pc' # pc) =>
        IF ~file.exists THEN loaded' = LoadNull /\ pc' = "loaded"
        ELSE pc' = "load_read"

C22_ReadStep ==
    (op = "executePrompt" /\ pc = "load_read" /\ pc' # pc /\ HasRequiredFields(file)) =>
        loaded' = LoadOk(Config(file.defaultBackend, file.backends, file.timeout))

C22_ResolveStep ==
    (op = "executePrompt" /\ pc = "loaded" /\ pc' # pc) =>
        /\ loaded.kind = "null" => outcome' = CilantroNotInitializedError
        /\ pc' = "exec_start" =>
              /\ loaded.kind = "config"
              /\ execOpts'.timeout = IF Truthy(opts.timeout) THEN opts.timeout
                                     ELSE loaded.config.timeout
              /\ (~NonEmpty(opts.backend) /\ ~NonEmpty(env)) =>
                    JsStr(adapter') = loaded.config.defaultBackend

C22_Between == op = "none" => loaded = LoadPending

\* C22: every executePrompt call looks at the file as it is during that
\* call: no file gives not-initialized, a valid file gives the configuration
\* it holds, and the default backend and the timeout are those of that
\* configuration; between calls no loaded configuration is kept.
C22_ReadAfresh ==
    [][C22_ExistsStep /\ C22_ReadStep /\ C22_ResolveStep]_vars /\ []C22_Between

\* two calls in a row took their timeouts from two different files
C22_Witness ==
    /\ op = "executePrompt"
    /\ pc = "done"
    /\ registry = TestRegistry
    /\ opts.timeout = Undef
    /\ opts.backend = JsStr("mock")
    /\ loaded = LoadOk(Config(JsStr("claude"), JsObj(KnownSpecs), JsNum(CustomTimeout)))
    /\ Len(calls) = 2
    /\ calls[1].timeout = JsNum(DefaultTimeout)
    /\ calls[2].timeout = JsNum(CustomTimeout)

\* Values of the `backends' mapping: other backends listed, other commands.
BackendsMappings ==
    {JsObj(KnownSpecs), JsObj(MockSpecs), JsObj({}),
     JsObj({LaunchSpec("claude", "claude-beta"), LaunchSpec("mock", "mock")})}

\* C26: the adapter executePrompt selects, the options it passes and the
\* command line that is spawned are the same for every configuration that
\* differs from the one loaded only in its backends mapping.
C26_BackendsIgnored ==
    (op = "executePrompt" /\ pc \in {"exec_start", "await_exited", "read_streams",
                                      "exec_ret", "done"} /\ adapter # NoBackend) =>
        /\ \A b \in BackendsMappings :
              LET other == [loaded.config EXCEPT !.backends = b] IN
              /\ ParseAndValidate(JSONStringify(other)) = LoadOk(other)
              /\ Preflight(LoadOk(other), opts, env, registry) = NoOutcome
              /\ GetBackend(registry, ResolveBackendName(opts, env, other)) = adapter
              /\ ExecuteOptions(opts.prompt, opts.workingDirectory,
                                EffectiveTimeout(opts, other)) = execOpts
        /\ proc.state # "none" =>
              /\ proc.argv = AdapterArgv(adapter, opts.prompt)
              /\ proc.cwd = opts.workingDirectory
              /\ timer.delay = TimerDelay(execOpts)

C26_Witness ==
    /\ op = "executePrompt"
    /\ pc = "done"
    /\ opts.backend = Undef
    /\ env = Undef
    /\ adapter = "claude"
    /\ loaded.config.backends = JsObj(KnownSpecs)
    /\ proc.argv = ClaudeArgv("What is 2+2?")
    /\ proc.cwd = "/tmp/test"

\* What executePrompt does with the load result ld, the backend override of
\* the command line and no timeout override: the error it raises, NoOutcome
\* when it calls the adapter.
FacadeOptions == [NoOptions EXCEPT !.backend = ParseArgs(args).backendOverride]
FacadeOutcome(ld) ==
    IF ld.kind = "error" THEN Raised("Error", ld.msg)
    ELSE Preflight(ld, FacadeOptions, env, registry)

\* The load result the prompt command acted on: no file when isInitialized
\* found none.
CliLoaded == IF loaded = LoadPending THEN LoadNull ELSE loaded

C28_Agreement ==
    /\ (AtPromptEnd /\ adapter = NoBackend) =>
          /\ FacadeOutcome(CliLoaded) # NoOutcome
          /\ stderrLog = <<"Error: " \o FacadeOutcome(CliLoaded).msg>>
    /\ (op = "cli" /\ CommandKind(args) = "prompt" /\ adapter # NoBackend) =>
          /\ FacadeOutcome(CliLoaded) = NoOutcome
          /\ adapter = GetBackend(registry,
                                  ResolveBackendName(FacadeOptions, env, loaded.config))
          /\ execOpts.prompt = Command(args).s
          /\ execOpts.timeout = EffectiveTimeout(FacadeOptions, loaded.config)

\* C28: the prompt command of the CLI and executePrompt, given the same
\* configuration file, backend override and CILANTRO_BACKEND, raise the same
\* pre-flight error or call the same adapter with the same prompt and the
\* timeout of the configuration.
C28_CliAgreesWithFacade == C28_Agreement

\* The same, for configuration files that are missing or valid.
C28_AgreesUnlessInvalid == CliLoaded.kind = "error" \/ C28_Agreement

\* The step is a direct call of saveConfig.
SaveConfigStep ==
    /\ op = "none"
    /\ \E config \in SystemConfigs : file' = JSONStringify(config)
    /\ UNCHANGED <<env, registry, op, pc, callVars, mockVars, procVars, moreVars>>

\* The step is the saveConfig of an `init' run that found an installed adapter.
InitSaveStep ==
    /\ op = "cli"
    /\ CommandKind(args) = "init"
    /\ pc = "detect_ret"
    /\ outcome.kind # "raised"
    /\ InstalledIndices(detected) # {}
    /\ file' = JSONStringify(InitConfigOf(detected))

\* Within one of the operations that only read.
ReadOnlyOperation ==
    \/ op \in {"executePrompt", "isInitialized", "loadConfig", "detectBackends"}
    \/ op = "cli" /\ CommandKind(args) \in {"help", "backends", "prompt"}
    \/ op = "cli" /\ CommandKind(args) = "init" /\ pc = "detect_ret"
                  /\ InstalledIndices(detected) = {}

\* C21: the configuration file changes only in a step of saveConfig, called
\* directly or by an `init' run that found an installed adapter; every step
\* of executePrompt, isInitialized, loadConfig, detectBackends, the backends
\* and prompt commands and an `init' run that found none leaves it as it is.
C21_OnlySaveWrites ==
    [][/\ file' # file => (SaveConfigStep \/ InitSaveStep)
       /\ ReadOnlyOperation => file' = file]_vars

\* an `init' run that found nothing installed ended and the invalid file is
\* still there
C21_Witness ==
    /\ op = "cli"
    /\ CommandKind(args) = "init"
    /\ pc = "done"
    /\ Len(detected) = 3
    /\ InstalledIndices(detected) = {}
    /\ exitStatus = 1
    /\ file = MalformedText

\* The reports detectBackends can give with some adapter installed, and the
\* texts `init' writes for them.
InstalledReports ==
    {[i \in 1..Len(ProductionRegistry) |->
         DetectedBackend(ProductionRegistry[i], JsBool(i \in S),
                         Capabilities(ProductionRegistry[i]))] :
       S \in (SUBSET (1..Len(ProductionRegistry))) \ {{}}}
InitWritten == {JSONStringify(InitConfigOf(report)) : report \in InstalledReports}

\* What `init' saves is a configuration that loads and whose default is a
\* registered adapter.
C25_InitStep ==
    (op = "cli" /\ CommandKind(args) = "init" /\ pc = "detect_ret" /\ exitStatus' = 0) =>
        /\ file' \in InitWritten
        /\ ParseAndValidate(file').kind = "config"
        /\ IsInitializedResult(ParseAndValidate(file')) = JsBool(TRUE)
        /\ GetBackend(registry, ParseAndValidate(file').config.defaultBackend) # NoBackend

\* With that file in place, isInitialized is true and an executePrompt with
\* no override passes both checks.
C25_Passes ==
    file \in InitWritten =>
        /\ (op = "isInitialized" /\ pc \in {"init_ret", "done"}) =>
              initialized = JsBool(TRUE)
        /\ (op = "executePrompt" /\ pc = "done" /\ opts.backend = Undef /\ env = Undef) =>
              /\ outcome.kind = "returned"
              /\ adapter = ToStr(loaded.config.defaultBackend)
              /\ GetBackend(registry, loaded.config.defaultBackend) = adapter
              /\ adapter # NoBackend

\* C25: after an `init' run that saved a configuration, with the registry
\* the same, no backend override and CILANTRO_BACKEND unset, isInitialized()
\* is true and executePrompt raises neither CilantroNotInitializedError nor
\* BackendNotFoundError: the stored default names a registered adapter.
C25_InitThenExecute == [][C25_InitStep]_vars /\ []C25_Passes

\* executePrompt ran the codex adapter, the default an `init' run stored
C25_Witness ==
    /\ op = "executePrompt"
    /\ pc = "done"
    /\ opts.backend = Undef
    /\ env = Undef
    /\ file = JSONStringify(Config(JsStr("codex"), JsObj(KnownSpecs), JsNum(DefaultTimeout)))
    /\ adapter = "codex"
    /\ outcome.kind = "returned"

====
